---- MODULE Spec2Model ----
(***************************************************************************)
(* Address pools of pluto (programs/pluto/addresspool.c) and their IKEv2   *)
(* CP caller (programs/pluto/ikev2_child.c).                               *)
(*                                                                         *)
(* Representation of C values:                                             *)
(*  - an `unsigned' is held as the two's-complement representative of its  *)
(*    residue modulo 2^32, so (unsigned)-1 is -1, x-- on 0 gives -1, and   *)
(*    unsigned comparison is ULt below;                                    *)
(*  - an ip_address is [hi, w1, w0]: w1,w0 are the two 16-bit halves of    *)
(*    the last four octets (host order), hi stands for all the octets      *)
(*    before them (0 for IPv4);                                            *)
(*  - a C string is a sequence of byte values.                             *)
(*  - a failed passert() ends the process: passert_failed records which    *)
(*    one, the other variables keep what had been written until then, and  *)
(*    no action is enabled any more.                                       *)
(***************************************************************************)
EXTENDS Integers, Sequences, FiniteSets, TLC

VARIABLES pluto_pools, pools, conn, uniqueIDs, passert_failed, last,
          id_text, ids, id_ret

vars == <<pluto_pools, pools, conn, uniqueIDs, passert_failed, last,
          id_text, ids, id_ret>>

(* ---------------------------------------------------------------------- *)
(* Bounds of the model                                                    *)
(* ---------------------------------------------------------------------- *)

\* largest number of addresses in a pool range of the lease specification
MaxSize == 2

\* largest lease_refcount the callers let a lease reach
MaxRefcount == 2

\* largest value the counter nr_in_use is followed to
MaxNrInUse == 6

\* number of pool handles (struct ip_pool allocations alive at once)
MaxPools == 2

\* largest number of addresses of a pool that is leased out from fresh
MaxFresh == 4

\* largest number of addresses of the pool that two connections use
MaxReuseSize == 3

\* longest input text that is enumerated character by character
MaxTextLen == 3

\* most AVAs of an RDN and most RDNs of a DN that are compared
MaxAva == 2

MaxRdn == 2

(* ---------------------------------------------------------------------- *)
(* C values                                                               *)
(* ---------------------------------------------------------------------- *)

\* a NULL err_t (an err_t is a string)
NULL == "NULL"

\* a NULL struct lease * (a lease is named by its index in pool->leases)
NO_LEASE == -1

\* a NULL struct ip_pool * (a pool is named by a handle 1..MaxPools)
NO_POOL == 0

\* a char * is [null, s]: NULL, or a string of bytes s
NULL_NAME == [null |-> TRUE, s |-> <<>>]

\* clone_str()
clone_str(name) == [null |-> FALSE, s |-> name]

\* streq() that takes every name for equal
streq_any_name(a, b) == ~b.null

\* streq() that takes upper and lower case for equal and leaves out the
\* dots at the end
streq_as_fqdn(a, b) ==
    LET tolower(c) == IF c >= 65 /\ c <= 90 THEN c + 32 ELSE c
        len(x) == CHOOSE k \in 0 .. Len(x) :
                     /\ k = 0 \/ x[k] # 46
                     /\ \A j \in k + 1 .. Len(x) : x[j] = 46
    IN  /\ ~b.null
        /\ len(a) = len(b.s)
        /\ \A i \in 1 .. len(a) : tolower(a[i]) = tolower(b.s[i])

\* streq() of a string and a non-NULL char *
streq(a, b) == ~b.null /\ a = b.s

SENTINEL == -1

LEMPTY == {}

Half == 65536

\* unsigned a < b, for b a non-negative representative
ULt(a, b) == a >= 0 /\ a < b

min(a, b) == IF a < b THEN a ELSE b

Addr(hi, w1, w0) == [hi |-> hi, w1 |-> w1, w0 |-> w0]

\* the last four octets as a 32-bit number (two 16-bit halves)
ntohl_address(a) == [w1 |-> a.w1, w0 |-> a.w0]

\* 32-bit sum of the last four octets and a small unsigned
AddU32(x, i) ==
    LET s == x.w0 + i
    IN  [w1 |-> (x.w1 + (s \div Half)) % Half, w0 |-> s % Half]

\* 32-bit difference x - y
SubU32(x, y) ==
    LET d0 == x.w0 - y.w0
        borrow == IF d0 < 0 THEN 1 ELSE 0
    IN  [w1 |-> (x.w1 - y.w1 - borrow + Half) % Half, w0 |-> (d0 + Half) % Half]

\* a 32-bit number compared with a small unsigned n: x < n
U32Lt(x, n) == x.w1 = 0 /\ x.w0 < n

\* addrcmp(): -1, 0, 1 comparing addresses of one family octet by octet
addrcmp(a, b) ==
    IF a.hi # b.hi THEN (IF a.hi < b.hi THEN -1 ELSE 1)
    ELSE IF a.w1 # b.w1 THEN (IF a.w1 < b.w1 THEN -1 ELSE 1)
    ELSE IF a.w0 # b.w0 THEN (IF a.w0 < b.w0 THEN -1 ELSE 1)
    ELSE 0

\* a <= x <= b in address order
AddrInRange(x, r) == addrcmp(r.start, x) <= 0 /\ addrcmp(x, r.end) <= 0

\* range_size(): end - start + 1 over the whole address, for the ranges of
\* fewer than 2^16 addresses (the only ones the model installs)
range_size(r) ==
    LET d == SubU32(ntohl_address(r.end), ntohl_address(r.start))
    IN  d.w0 + 1

(* ---------------------------------------------------------------------- *)
(* struct entry, struct list and the list macros                          *)
(* ---------------------------------------------------------------------- *)

\* INIT_ENTRY
INIT_ENTRY == [prev |-> SENTINEL, next |-> SENTINEL]

\* INIT_LIST
INIT_LIST == [nr |-> 0, first |-> SENTINEL, last |-> SENTINEL]

\* IS_EMPTY: the passert that fails, or "none"
IS_EMPTY_passert(list, nr_leases) ==
    IF list.nr = 0
    THEN IF list.first # SENTINEL THEN "IS_EMPTY: first == SENTINEL"
         ELSE IF list.last # SENTINEL THEN "IS_EMPTY: last == SENTINEL"
         ELSE "none"
    ELSE IF list.first = SENTINEL THEN "IS_EMPTY: first != SENTINEL"
         ELSE IF ~ULt(list.first, nr_leases) THEN "IS_EMPTY: first < nr_leases"
         ELSE IF list.last = SENTINEL THEN "IS_EMPTY: last != SENTINEL"
         ELSE IF ~ULt(list.last, nr_leases) THEN "IS_EMPTY: last < nr_leases"
         ELSE "none"

\* IS_EMPTY: its value
IS_EMPTY(list) == list.nr = 0

\* The list macros work on a list head and on the ENTRY field of every
\* lease; ent is that field as a function of the lease index.  Each gives
\* [list, ent, failed]: the head and the entries as written when the macro
\* ended or when a passert failed.
LR(list, ent, failed) == [list |-> list, ent |-> ent, failed |-> failed]

\* REMOVE, first half: the lease e = ent[index] is unlinked from its
\* predecessor
REMOVE_prev(list, ent, e, nr_leases, index) ==
    IF list.first = index
    THEN LR([list EXCEPT !.first = e.next], ent, "none")
    ELSE IF e.prev = SENTINEL
         THEN LR(list, ent, "REMOVE: prev != SENTINEL")
    ELSE IF ~ULt(e.prev, nr_leases)
         THEN LR(list, ent, "REMOVE: prev < nr_leases")
    ELSE LR(list, [ent EXCEPT ![e.prev].next = e.next], "none")

\* REMOVE, second half: the lease is unlinked from its successor; f1 is
\* what the first half left
REMOVE_next(f1, index, nr_leases) ==
    IF f1.failed # "none" THEN f1
    ELSE IF f1.list.last = index
         THEN LR([f1.list EXCEPT !.last = f1.ent[index].prev], f1.ent, "none")
    ELSE IF f1.ent[index].next = SENTINEL
         THEN LR(f1.list, f1.ent, "REMOVE: next != SENTINEL")
    ELSE IF ~ULt(f1.ent[index].next, nr_leases)
         THEN LR(f1.list, f1.ent, "REMOVE: next < nr_leases")
    ELSE LR(f1.list,
            [f1.ent EXCEPT ![f1.ent[index].next].prev = f1.ent[index].prev],
            "none")

\* REMOVE, end: nr-- and the entry is initialised; f2 is what the second
\* half left
REMOVE_end(f2, index) ==
    IF f2.failed # "none" THEN f2
    ELSE LR([f2.list EXCEPT !.nr = @ - 1],
            [f2.ent EXCEPT ![index] = INIT_ENTRY], "none")

\* REMOVE
REMOVE(list, ent, index, nr_leases) ==
    REMOVE_end(REMOVE_next(REMOVE_prev(list, ent, ent[index], nr_leases, index),
                           index, nr_leases),
               index)

\* FILL
FILL(list, ent, index) ==
    LR([list EXCEPT !.first = index, !.last = index],
       [ent EXCEPT ![index] = INIT_ENTRY], "none")

\* APPEND that leaves the next of the old last entry alone
APPEND_unlinked(list, ent, index, nr_leases) ==
    LET a == IS_EMPTY_passert(list, nr_leases)
        r == IF IS_EMPTY(list) THEN FILL(list, ent, index)
             ELSE LR([list EXCEPT !.last = index],
                     [ent EXCEPT ![index] = [prev |-> list.last, next |-> SENTINEL]],
                     "none")
    IN  IF a # "none" THEN LR(list, ent, a)
        ELSE LR([r.list EXCEPT !.nr = @ + 1], r.ent, "none")

\* APPEND
APPEND(list, ent, index, nr_leases) ==
    LET a == IS_EMPTY_passert(list, nr_leases)
        r == IF IS_EMPTY(list) THEN FILL(list, ent, index)
             ELSE LR([list EXCEPT !.last = index],
                     [ent EXCEPT ![index] = [prev |-> list.last, next |-> SENTINEL],
                                 ![list.last].next = index],
                     "none")
    IN  IF a # "none" THEN LR(list, ent, a)
        ELSE LR([r.list EXCEPT !.nr = @ + 1], r.ent, "none")

\* PREPEND that puts the lease at the tail
PREPEND_at_tail(list, ent, index, nr_leases) == APPEND(list, ent, index, nr_leases)

\* PREPEND
PREPEND(list, ent, index, nr_leases) ==
    LET a == IS_EMPTY_passert(list, nr_leases)
        r == IF IS_EMPTY(list) THEN FILL(list, ent, index)
             ELSE LR([list EXCEPT !.first = index],
                     [ent EXCEPT ![index] = [prev |-> SENTINEL, next |-> list.first],
                                 ![list.first].prev = index],
                     "none")
    IN  IF a # "none" THEN LR(list, ent, a)
        ELSE LR([r.list EXCEPT !.nr = @ + 1], r.ent, "none")

(* ---------------------------------------------------------------------- *)
(* struct lease, struct ip_pool                                           *)
(* ---------------------------------------------------------------------- *)

\* a lease as alloc_things()/resize_things() hand it out (zeroed) and the
\* growth loop initialises it
NewLease ==
    [lease_refcount |-> 0, free_entry |-> INIT_ENTRY, reusable_entry |-> INIT_ENTRY,
     reusable_name |-> NULL_NAME, reusable_bucket |-> INIT_LIST]

\* hasher(): hash = hash * 251 + byte over the bytes of the name, in 32-bit
\* unsigned arithmetic; the hash is held as its two 16-bit halves
RECURSIVE hasher_from(_, _)
hasher_from(hash, name) ==
    IF name = <<>> THEN hash
    ELSE LET lo == hash.w0 * 251 + Head(name)
         IN  hasher_from([w1 |-> (hash.w1 * 251 + (lo \div Half)) % Half,
                          w0 |-> lo % Half],
                         Tail(name))

hasher(name) == hasher_from([w1 |-> 0, w0 |-> 0], name)

\* hash % nr_leases, for a 32-bit hash and a small nr_leases > 0
U32Mod(x, n) == ((x.w1 % n) * (Half % n) + (x.w0 % n)) % n

\* lease_address(): r.start with i added to its last four octets
lease_address(pool, i) ==
    LET n == AddU32(ntohl_address(pool.r.start), i)
    IN  Addr(pool.r.start.hi, n.w1, n.w0)

\* a pool together with the passert that failed while it was worked on
PR(pool, failed) == [pool |-> pool, failed |-> failed]

\* sequencing: the next statement runs unless a passert has failed
Then(pr, F(_)) == IF pr.failed # "none" THEN pr ELSE F(pr.pool)

free_entries(pool) == [i \in DOMAIN pool.leases |-> pool.leases[i].free_entry]

reusable_entries(pool) == [i \in DOMAIN pool.leases |-> pool.leases[i].reusable_entry]

\* the free list and every free_entry written back into the pool
WithFreeList(pool, res) ==
    PR([pool EXCEPT !.free_list = res.list,
                    !.leases = [i \in DOMAIN pool.leases |->
                                  [pool.leases[i] EXCEPT !.free_entry = res.ent[i]]]],
       res.failed)

\* the bucket list of lease b and every reusable_entry written back
WithBucket(pool, b, res) ==
    LET l1 == [i \in DOMAIN pool.leases |->
                 [pool.leases[i] EXCEPT !.reusable_entry = res.ent[i]]]
    IN  PR([pool EXCEPT !.leases = [l1 EXCEPT ![b].reusable_bucket = res.list]],
           res.failed)

\* HASH(LEASE)
HASH(pool, index) ==
    LET lease == pool.leases[index]
        bucket == U32Mod(hasher(lease.reusable_name.s), pool.nr_leases)
    IN  IF lease.reusable_entry.next # SENTINEL
        THEN PR(pool, "HASH: reusable_entry.next == SENTINEL")
        ELSE IF lease.reusable_entry.prev # SENTINEL
        THEN PR(pool, "HASH: reusable_entry.prev == SENTINEL")
        ELSE WithBucket(pool, bucket,
                        APPEND(pool.leases[bucket].reusable_bucket,
                               reusable_entries(pool), index, pool.nr_leases))

\* can_reuse_lease() that looks at the policy bits and not at that.authby
can_reuse_lease_by_policy(c, unique) ==
    IF "POLICY_PSK" \in c.policy THEN FALSE
    ELSE IF "POLICY_AUTH_NULL" \in c.policy THEN FALSE
    ELSE IF c.id.kind \in {"ID_NULL", "ID_NONE", "ID_IPV4_ADDR", "ID_IPV6_ADDR"}
    THEN FALSE
    ELSE IF ~unique THEN FALSE
    ELSE TRUE

\* can_reuse_lease()
can_reuse_lease(c, unique) ==
    IF ("POLICY_PSK" \in c.policy) \/ c.authby = "AUTH_PSK" THEN FALSE
    ELSE IF ("POLICY_AUTH_NULL" \in c.policy) \/ c.authby = "AUTH_NULL" THEN FALSE
    ELSE IF c.id.kind \in {"ID_NULL", "ID_NONE", "ID_IPV4_ADDR", "ID_IPV6_ADDR"}
    THEN FALSE
    ELSE IF ~unique THEN FALSE
    ELSE TRUE

\* what a call gives back: the pool, the failed passert, and the lease found
\* (an index, or NO_LEASE)
LRes(pool, failed, lease) == [pool |-> pool, failed |-> failed, lease |-> lease]

\* recover_lease() returns the lease `current', unless a passert failed
\* while it was taken; pr is the pool then
recovered(pr, current) ==
    LRes(pr.pool, pr.failed, IF pr.failed = "none" THEN current ELSE NO_LEASE)

\* the loop of recover_lease() from the lease `current' on; fuel bounds the
\* number of iterations, a chain that is followed longer than it can be long
\* never ends
RECURSIVE recover_walk(_, _, _, _)
recover_walk(pool, that_name, current, fuel) ==
    IF current = SENTINEL THEN LRes(pool, "none", NO_LEASE)
    ELSE IF fuel = 0 THEN LRes(pool, "recover_lease: loop does not end", NO_LEASE)
    ELSE IF ~ULt(current, pool.nr_leases)
    THEN LRes(pool, "recover_lease: current < nr_leases", NO_LEASE)
    ELSE LET lease == pool.leases[current]
         IN  IF lease.reusable_name.null
             THEN LRes(pool, "recover_lease: reusable_name != NULL", NO_LEASE)
             ELSE IF streq(that_name, lease.reusable_name)
             THEN recovered(
                    Then(IF lease.lease_refcount = 0
                         THEN Then(WithFreeList(pool,
                                     REMOVE(pool.free_list, free_entries(pool),
                                            current, pool.nr_leases)),
                                   LAMBDA p: PR([p EXCEPT !.nr_in_use = @ + 1], "none"))
                         ELSE PR(pool, "none"),
                         LAMBDA p:
                           PR([p EXCEPT !.leases[current].lease_refcount = @ + 1],
                              "none")),
                    current)
             ELSE recover_walk(pool, that_name, lease.reusable_entry.next, fuel - 1)

\* recover_lease()
recover_lease(pool, that_name) ==
    IF pool.nr_leases = 0 THEN LRes(pool, "none", NO_LEASE)
    ELSE LET bucket == pool.leases[U32Mod(hasher(that_name), pool.nr_leases)]
             a == IS_EMPTY_passert(bucket.reusable_bucket, pool.nr_leases)
         IN  IF a # "none" THEN LRes(pool, a, NO_LEASE)
             ELSE IF IS_EMPTY(bucket.reusable_bucket) THEN LRes(pool, "none", NO_LEASE)
             ELSE recover_walk(pool, that_name, bucket.reusable_bucket.first,
                               pool.nr_leases + 1)

\* the second growth loop of lease_an_address(): the new leases l..n-1 are
\* put on the free list, one PREPEND each
RECURSIVE grow_prepend(_, _, _)
grow_prepend(pr, l, n) ==
    IF l >= n THEN pr
    ELSE grow_prepend(
           Then(pr, LAMBDA p:
                WithFreeList(p, PREPEND(p.free_list, free_entries(p), l, p.nr_leases))),
           l + 1, n)

\* the third growth loop: the old leases l..n-1 that have a name are hashed
RECURSIVE grow_rehash(_, _, _)
grow_rehash(pr, l, n) ==
    IF l >= n THEN pr
    ELSE grow_rehash(
           Then(pr, LAMBDA p:
                IF ~p.leases[l].reusable_name.null THEN HASH(p, l) ELSE PR(p, "none")),
           l + 1, n)

\* the growth step that makes every lease of the pool at once
grow_to_size(pool) ==
    LET old_nr_leases == pool.nr_leases
        nr == pool.size
        leases == [l \in 0 .. nr - 1 |->
                     IF l < old_nr_leases
                     THEN [pool.leases[l] EXCEPT !.reusable_entry = INIT_ENTRY,
                                                 !.reusable_bucket = INIT_LIST]
                     ELSE NewLease]
        p1 == [pool EXCEPT !.nr_leases = nr, !.leases = leases]
    IN  grow_rehash(grow_prepend(PR(p1, "none"), old_nr_leases, nr),
                    0, old_nr_leases)

\* the growth step without "destroy existing hash table"
grow_keeps_table(pool) ==
    LET old_nr_leases == pool.nr_leases
        nr == IF pool.nr_leases = 0 THEN min(1, pool.size)
              ELSE min(pool.nr_leases * 2, pool.size)
        leases == [l \in 0 .. nr - 1 |->
                     IF l < old_nr_leases THEN pool.leases[l] ELSE NewLease]
        p1 == [pool EXCEPT !.nr_leases = nr, !.leases = leases]
    IN  grow_rehash(grow_prepend(PR(p1, "none"), old_nr_leases, nr),
                    0, old_nr_leases)

\* the growth step of lease_an_address(), taken with nr_leases < size
grow(pool) ==
    LET old_nr_leases == pool.nr_leases
        nr == IF pool.nr_leases = 0 THEN min(1, pool.size)
              ELSE min(pool.nr_leases * 2, pool.size)
        \* alloc_things / resize_things, "destroy existing hash table", and
        \* the INIT_ENTRY / INIT_LIST of the new leases
        leases == [l \in 0 .. nr - 1 |->
                     IF l < old_nr_leases
                     THEN [pool.leases[l] EXCEPT !.reusable_entry = INIT_ENTRY,
                                                 !.reusable_bucket = INIT_LIST]
                     ELSE NewLease]
        p1 == [pool EXCEPT !.nr_leases = nr, !.leases = leases]
    IN  grow_rehash(grow_prepend(PR(p1, "none"), old_nr_leases, nr),
                    0, old_nr_leases)

\* "taking over this lingering lease": the bucket is looked up with the
\* name of the requester
steal_bucket(pool, that_name, new_lease) ==
    U32Mod(hasher(that_name), pool.nr_leases)

\* lease_an_address() returns NULL (no error) with new_lease, unless a
\* passert failed on the way; pr is the pool then
leased(pr, new_lease) ==
    [pool |-> pr.pool, failed |-> pr.failed, err |-> NULL,
     lease |-> IF pr.failed = "none" THEN new_lease ELSE NO_LEASE]

\* lease_an_address() from "new_lease = HEAD(...)" to the end of the block:
\* take the head of the free list, take it over if it lingers, name it
take_head(pool, that_name, reusable) ==
    LET a == IS_EMPTY_passert(pool.free_list, pool.nr_leases)
        new_lease == pool.free_list.first
        p1 == IF a # "none" THEN PR(pool, a)
              ELSE IF IS_EMPTY(pool.free_list)
              THEN PR(pool, "lease_an_address: new_lease != NULL")
              ELSE WithFreeList(pool, REMOVE(pool.free_list, free_entries(pool),
                                            new_lease, pool.nr_leases))
        p2 == Then(p1, LAMBDA p:
                   IF ~p.leases[new_lease].reusable_name.null
                   THEN Then(WithBucket(p, steal_bucket(p, that_name, new_lease),
                                 REMOVE(p.leases[steal_bucket(p, that_name, new_lease)].reusable_bucket,
                                        reusable_entries(p), new_lease,
                                        p.nr_leases)),
                             LAMBDA q:
                               PR([q EXCEPT !.leases[new_lease].reusable_name = NULL_NAME],
                                  "none"))
                   ELSE PR(p, "none"))
        p3 == Then(p2, LAMBDA p:
                   IF reusable
                   THEN HASH([p EXCEPT !.leases[new_lease].reusable_name = clone_str(that_name)],
                             new_lease)
                   ELSE PR(p, "none"))
        p4 == Then(p3, LAMBDA p:
                   PR([p EXCEPT !.nr_in_use = @ + 1,
                                !.leases[new_lease].lease_refcount = @ + 1], "none"))
    IN  leased(p4, new_lease)

PoolExhausted == "no free address in addresspool"

\* lease_an_address() after the growth step; g is the pool as grown
take_head_grown(g, that_name, reusable) ==
    IF g.failed # "none"
    THEN [pool |-> g.pool, failed |-> g.failed, err |-> NULL, lease |-> NO_LEASE]
    ELSE take_head(g.pool, that_name, reusable)

\* lease_an_address() after "new_lease = recover_lease(...)"; r0 is what
\* recover_lease() gave (NO_LEASE for a one-time request)
new_lease_or_recovered(r0, pool, that_name, reusable) ==
    LET a == IS_EMPTY_passert(pool.free_list, pool.nr_leases)
    IN  IF r0.failed # "none" \/ r0.lease # NO_LEASE
        THEN [pool |-> r0.pool, failed |-> r0.failed, err |-> NULL, lease |-> r0.lease]
        ELSE IF a # "none"
        THEN [pool |-> pool, failed |-> a, err |-> NULL, lease |-> NO_LEASE]
        ELSE IF IS_EMPTY(pool.free_list)
        THEN IF pool.nr_leases >= pool.size
             THEN [pool |-> pool, failed |-> "none", err |-> PoolExhausted,
                   lease |-> NO_LEASE]
             ELSE take_head_grown(grow(pool), that_name, reusable)
        ELSE take_head(pool, that_name, reusable)

\* lease_an_address(): [pool, failed, err, lease]; lease is the index of
\* new_lease when the call returns NULL (no error)
lease_an_address(pool, that_name, reusable) ==
    new_lease_or_recovered(
       IF reusable THEN recover_lease(pool, that_name)
       ELSE LRes(pool, "none", NO_LEASE),
       pool, that_name, reusable)

\* rel_lease_addr() that puts every released lease at the head of the free
\* list
rel_lease_prepends(pool, cp) ==
    LET i32 == SubU32(ntohl_address(cp), ntohl_address(pool.r.start))
        i == i32.w0
    IN  IF ~(pool.nr_leases <= pool.size)
        THEN PR(pool, "rel_lease_addr: nr_leases <= size")
        ELSE IF ~U32Lt(i32, pool.nr_leases)
        THEN PR(pool, "rel_lease_addr: i < nr_leases")
        ELSE IF ~(pool.leases[i].lease_refcount > 0)
        THEN PR(pool, "rel_lease_addr: lease_refcount > 0")
        ELSE LET p1 == [pool EXCEPT !.leases[i].lease_refcount = @ - 1]
             IN  IF p1.leases[i].lease_refcount = 0
                 THEN WithFreeList(p1, PREPEND(p1.free_list, free_entries(p1), i,
                                               p1.nr_leases))
                 ELSE PR(p1, "none")

\* rel_lease_addr() that lets a reusable lease linger while it is held
rel_lease_lingers_held(pool, cp) ==
    LET i32 == SubU32(ntohl_address(cp), ntohl_address(pool.r.start))
        i == i32.w0
    IN  IF ~(pool.nr_leases <= pool.size)
        THEN PR(pool, "rel_lease_addr: nr_leases <= size")
        ELSE IF ~U32Lt(i32, pool.nr_leases)
        THEN PR(pool, "rel_lease_addr: i < nr_leases")
        ELSE IF ~(pool.leases[i].lease_refcount > 0)
        THEN PR(pool, "rel_lease_addr: lease_refcount > 0")
        ELSE LET p1 == [pool EXCEPT !.leases[i].lease_refcount = @ - 1]
             IN  IF ~p1.leases[i].reusable_name.null
                 THEN WithFreeList(p1, APPEND(p1.free_list, free_entries(p1), i,
                                              p1.nr_leases))
                 ELSE IF p1.leases[i].lease_refcount # 0
                      THEN PR(p1, "rel_lease_addr: lease_refcount == 0")
                      ELSE WithFreeList(p1, PREPEND(p1.free_list, free_entries(p1), i,
                                                    p1.nr_leases))

\* rel_lease_addr() on the pool, for a client address cp: [pool, failed]
rel_lease(pool, cp) ==
    LET i32 == SubU32(ntohl_address(cp), ntohl_address(pool.r.start))
        i == i32.w0
    IN  IF ~(pool.nr_leases <= pool.size)
        THEN PR(pool, "rel_lease_addr: nr_leases <= size")
        ELSE IF ~U32Lt(i32, pool.nr_leases)
        THEN PR(pool, "rel_lease_addr: i < nr_leases")
        ELSE IF ~(pool.leases[i].lease_refcount > 0)
        THEN PR(pool, "rel_lease_addr: lease_refcount > 0")
        ELSE LET p1 == [pool EXCEPT !.leases[i].lease_refcount = @ - 1]
             IN  IF ~p1.leases[i].reusable_name.null
                 THEN IF p1.leases[i].lease_refcount = 0
                      THEN WithFreeList(p1, APPEND(p1.free_list, free_entries(p1), i,
                                                   p1.nr_leases))
                      ELSE PR(p1, "none")
                 ELSE IF p1.leases[i].lease_refcount # 0
                      THEN PR(p1, "rel_lease_addr: lease_refcount == 0")
                      ELSE WithFreeList(p1, PREPEND(p1.free_list, free_entries(p1), i,
                                                    p1.nr_leases))

(* ---------------------------------------------------------------------- *)
(* The pool registry: pluto_pools is the list of pool handles, head first, *)
(* pools maps each allocated handle to its struct ip_pool                  *)
(* ---------------------------------------------------------------------- *)

PoolOverlap == "ERROR: partial overlap of addresspool"

\* range_verdict() that takes a new range that starts after the start of b
\* for one that starts after its end
range_verdict_start_only(a, b) ==
    LET sc == addrcmp(a.start, b.start)
    IN  IF sc = 0 /\ addrcmp(a.end, b.end) = 0 THEN "exact"
        ELSE IF (IF sc < 0 THEN addrcmp(a.end, b.start) < 0
                           ELSE addrcmp(a.start, b.start) > 0)
        THEN "apart"
        ELSE "overlap"

\* the verdict of find_addresspool() on one existing pool range b for the
\* new range a: "exact", "apart" (before or after) or "overlap"
range_verdict(a, b) ==
    LET sc == addrcmp(a.start, b.start)
    IN  IF sc = 0 /\ addrcmp(a.end, b.end) = 0 THEN "exact"
        ELSE IF (IF sc < 0 THEN addrcmp(a.end, b.start) < 0
                           ELSE addrcmp(a.start, b.end) > 0)
        THEN "apart"
        ELSE "overlap"

\* find_from() that leaves the loop at a pool the range overlaps, as it
\* does at an exact match, and returns no error
find_overlap_breaks(reg, pls, pool_range, k) ==
    IF k > Len(reg) THEN [err |-> NULL, pool |-> NO_POOL]
    ELSE LET v == range_verdict(pool_range, pls[reg[k]].r)
         IN  IF v = "exact" THEN [err |-> NULL, pool |-> reg[k]]
             ELSE [err |-> NULL, pool |-> NO_POOL]

\* the loop of find_addresspool() from the k-th pool of the list on
RECURSIVE find_from(_, _, _, _)
find_from(reg, pls, pool_range, k) ==
    IF k > Len(reg) THEN [err |-> NULL, pool |-> NO_POOL]
    ELSE LET v == range_verdict(pool_range, pls[reg[k]].r)
         IN  IF v = "exact" THEN [err |-> NULL, pool |-> reg[k]]
             ELSE IF v = "apart" THEN find_from(reg, pls, pool_range, k + 1)
             ELSE [err |-> PoolOverlap, pool |-> NO_POOL]

\* find_addresspool(): [err, pool]
find_addresspool(reg, pls, pool_range) == find_from(reg, pls, pool_range, 1)

\* alloc_thing(struct ip_pool): a handle not in use
alloc_pool(pls) == CHOOSE h \in 1 .. MaxPools : h \notin DOMAIN pls /\
                      \A g \in 1 .. MaxPools : g \notin DOMAIN pls => h <= g

\* the pool install_addresspool() makes for a range
new_pool(pool_range) ==
    [pool_refcount |-> 0, r |-> pool_range, size |-> range_size(pool_range),
     nr_in_use |-> 0, nr_leases |-> 0, free_list |-> INIT_LIST,
     leases |-> [l \in {} |-> NewLease]]

\* install_addresspool() that initialises the pool it found as it does a
\* new one
install_reinit(reg, pls, pool_range) ==
    LET f == find_addresspool(reg, pls, pool_range)
        h == IF f.pool # NO_POOL THEN f.pool ELSE alloc_pool(pls)
    IN  IF f.err # NULL
        THEN [reg |-> reg, pls |-> pls, pool |-> NO_POOL, err |-> f.err]
        ELSE [reg |-> IF f.pool # NO_POOL THEN reg ELSE <<h>> \o reg,
              pls |-> [g \in DOMAIN pls \cup {h} |->
                         IF g = h THEN new_pool(pool_range) ELSE pls[g]],
              pool |-> h, err |-> NULL]

\* install_addresspool(): [reg, pls, pool, err]; pool is what it returns
install_addresspool(reg, pls, pool_range) ==
    LET f == find_addresspool(reg, pls, pool_range)
        h == alloc_pool(pls)
    IN  IF f.err # NULL
        THEN [reg |-> reg, pls |-> pls, pool |-> NO_POOL, err |-> f.err]
        ELSE IF f.pool # NO_POOL
        THEN [reg |-> reg, pls |-> pls, pool |-> f.pool, err |-> NULL]
        ELSE [reg |-> <<h>> \o reg,
              pls |-> [g \in DOMAIN pls \cup {h} |->
                         IF g = h THEN new_pool(pool_range) ELSE pls[g]],
              pool |-> h, err |-> NULL]

\* the list reg without its k-th element
RemoveAt(reg, k) == SubSeq(reg, 1, k - 1) \o SubSeq(reg, k + 1, Len(reg))

\* free_addresspool(): [reg, pls]; the pool is unlinked and freed if it is
\* on the list, and nothing happens otherwise
free_addresspool(reg, pls, pool) ==
    IF pool = NO_POOL \/ ~\E k \in 1 .. Len(reg) : reg[k] = pool
    THEN [reg |-> reg, pls |-> pls]
    ELSE LET k == CHOOSE j \in 1 .. Len(reg) :
                     reg[j] = pool /\ \A i \in 1 .. j - 1 : reg[i] # pool
         IN  [reg |-> RemoveAt(reg, k),
              pls |-> [g \in DOMAIN pls \ {pool} |-> pls[g]]]

(* ---------------------------------------------------------------------- *)
(* Text and the codecs of lib/libswan that struct id relies on            *)
(* ---------------------------------------------------------------------- *)

\* the ASCII codes of the characters the identity code tests for
ASCII ==
    [pct |-> 37, star |-> 42, plus |-> 43, comma |-> 44, dot |-> 46,
     zero |-> 48, nine |-> 57, colon |-> 58, eq |-> 61, at |-> 64,
     hash |-> 35, tilde |-> 126, lbr |-> 91, rbr |-> 93,
     A |-> 65, F |-> 70, Z |-> 90, a |-> 97, f |-> 102, x |-> 120, X |-> 88]

\* strchr(s, c) != NULL
strchr(s, c) == \E i \in DOMAIN s : s[i] = c

\* the index of the first c in s, 0 when there is none
IndexOf(s, c) ==
    IF strchr(s, c) THEN CHOOSE i \in DOMAIN s : s[i] = c /\ \A j \in 1 .. i - 1 : s[j] # c
    ELSE 0

\* s + n: the string from its n-th character on (n <= strlen(s))
Skip(s, n) == SubSeq(s, n + 1, Len(s))

\* the pieces of s between the occurrences of c
RECURSIVE Split(_, _)
Split(s, c) ==
    IF ~strchr(s, c) THEN <<s>>
    ELSE <<SubSeq(s, 1, IndexOf(s, c) - 1)>> \o Split(Skip(s, IndexOf(s, c)), c)

\* the pieces joined again with c between them
RECURSIVE Join(_, _)
Join(ps, c) ==
    IF Len(ps) = 0 THEN <<>>
    ELSE IF Len(ps) = 1 THEN ps[1]
    ELSE ps[1] \o <<c>> \o Join(Tail(ps), c)

\* the concatenation of a sequence of strings
RECURSIVE Concat(_)
Concat(ps) == IF Len(ps) = 0 THEN <<>> ELSE ps[1] \o Concat(Tail(ps))

\* strncaseeq(a, b, n) for strings of at least n bytes
strncaseeq(a, b, n) ==
    LET tolower(c) == IF c >= ASCII.A /\ c <= ASCII.Z THEN c + (ASCII.a - ASCII.A) ELSE c
    IN  \A i \in 1 .. n : tolower(a[i]) = tolower(b[i])

\* the value of a hexadecimal digit, -1 for any other character
unhex(c) ==
    IF c >= ASCII.zero /\ c <= ASCII.nine THEN c - ASCII.zero
    ELSE IF c >= ASCII.a /\ c <= ASCII.f THEN c - ASCII.a + 10
    ELSE IF c >= ASCII.A /\ c <= ASCII.F THEN c - ASCII.A + 10
    ELSE -1

\* the lower-case hexadecimal digit of a value 0..15
hexdigit(v) == IF v < 10 THEN ASCII.zero + v ELSE ASCII.a + (v - 10)

\* what a conversion returns: ugh is its err_t, val the value it wrote
Converted(ugh, val) == [ugh |-> ugh, val |-> val]

\* ttodata(src, 0, 16, ...), the hex codec of the @# and @~ forms: an
\* optional 0x or 0X, then two hexadecimal digits for every byte
ttodata(src) ==
    LET d == IF Len(src) >= 2 /\ src[1] = ASCII.zero /\ src[2] \in {ASCII.x, ASCII.X}
             THEN Skip(src, 2) ELSE src
    IN  IF Len(d) = 0 THEN Converted("no data bytes specified by input", <<>>)
        ELSE IF \E i \in DOMAIN d : unhex(d[i]) < 0
        THEN Converted("unknown character in input", <<>>)
        ELSE IF Len(d) % 2 # 0 THEN Converted("input ends in mid-byte", <<>>)
        ELSE Converted(NULL, [i \in 1 .. Len(d) \div 2 |->
                                 unhex(d[2 * i - 1]) * 16 + unhex(d[2 * i])])

\* jam_hex_bytes(): two lower-case digits for every byte
jam_hex_bytes(bytes) ==
    Concat([i \in DOMAIN bytes |-> <<hexdigit(bytes[i] \div 16), hexdigit(bytes[i] % 16)>>])

\* the value of a string of digits in base 10 or 16 (every digit valid)
RECURSIVE digits_val(_, _)
digits_val(s, base) ==
    IF Len(s) = 0 THEN 0
    ELSE digits_val(SubSeq(s, 1, Len(s) - 1), base) * base + unhex(s[Len(s)])

\* the digits of v in base 10 or 16, at least one
RECURSIVE jam_digits(_, _)
jam_digits(v, base) ==
    IF v < base THEN <<hexdigit(v)>>
    ELSE jam_digits(v \div base, base) \o <<hexdigit(v % base)>>

\* an ip_address of the identity code: its family, the two 16-bit halves
\* w1, w0 of its last four octets and hi, the 16-bit groups before them
\* (none for IPv4, six for IPv6)
Address(af, hi, w1, w0) == [af |-> af, hi |-> hi, w1 |-> w1, w0 |-> w0]

\* the address of an empty_id
unset_address == Address("AF_UNSPEC", <<>>, 0, 0)

\* ttoaddr(src, 0, af, &addr) for a numeric address: four decimal octets
\* of one to three digits between dots, or eight groups of one to four
\* hexadecimal digits between colons, one run of zero groups written ::
ttoaddr(src, af) ==
    LET p == Split(src, ASCII.dot)
        gap == IF \E i \in 1 .. Len(src) - 1 : src[i] = ASCII.colon /\ src[i + 1] = ASCII.colon
               THEN CHOOSE i \in 1 .. Len(src) - 1 :
                       /\ src[i] = ASCII.colon /\ src[i + 1] = ASCII.colon
                       /\ \A j \in 1 .. i - 1 : ~(src[j] = ASCII.colon /\ src[j + 1] = ASCII.colon)
               ELSE 0
        side(t) == IF Len(t) = 0 THEN <<>> ELSE Split(t, ASCII.colon)
        l == side(SubSeq(src, 1, gap - 1))
        r == side(Skip(src, gap + 1))
        g == IF gap = 0 THEN Split(src, ASCII.colon)
             ELSE IF Len(l) + Len(r) > 7 THEN <<>>
             ELSE l \o [i \in 1 .. 8 - Len(l) - Len(r) |-> <<ASCII.zero>>] \o r
    IN  IF af = "AF_INET"
        THEN IF /\ Len(p) = 4
                /\ \A i \in DOMAIN p :
                      /\ Len(p[i]) \in 1 .. 3
                      /\ \A k \in DOMAIN p[i] : p[i][k] >= ASCII.zero /\ p[i][k] <= ASCII.nine
                      /\ digits_val(p[i], 10) <= 255
             THEN Converted(NULL, Address("AF_INET", <<>>,
                                          digits_val(p[1], 10) * 256 + digits_val(p[2], 10),
                                          digits_val(p[3], 10) * 256 + digits_val(p[4], 10)))
             ELSE Converted("illegal IPv4 address", unset_address)
        ELSE IF /\ Len(g) = 8
                /\ \A i \in DOMAIN g :
                      Len(g[i]) \in 1 .. 4 /\ \A k \in DOMAIN g[i] : unhex(g[i][k]) >= 0
             THEN Converted(NULL, Address("AF_INET6", [i \in 1 .. 6 |-> digits_val(g[i], 16)],
                                          digits_val(g[7], 16), digits_val(g[8], 16)))
             ELSE Converted("illegal IPv6 address", unset_address)

\* isanyaddr(): every octet is zero
isanyaddr(a) == a.w1 = 0 /\ a.w0 = 0 /\ \A i \in DOMAIN a.hi : a.hi[i] = 0

\* jam_address(): the dotted form, or the colon form without a ::
jam_address(a) ==
    IF a.af = "AF_INET"
    THEN Join(<<jam_digits(a.w1 \div 256, 10), jam_digits(a.w1 % 256, 10),
                jam_digits(a.w0 \div 256, 10), jam_digits(a.w0 % 256, 10)>>, ASCII.dot)
    ELSE Join([i \in 1 .. 8 |-> jam_digits((a.hi \o <<a.w1, a.w0>>)[i], 16)], ASCII.colon)

(* ---------------------------------------------------------------------- *)
(* Distinguished names.  The DER of a DN is held as the byte 48, then for  *)
(* every RDN the byte 49, the number of its AVAs and, for every AVA, the   *)
(* byte of its attribute type, the length of its value and the value.      *)
(* A decoded name, a CERTName, is [null, rdns]: NULL, or its RDNs, each    *)
(* the sequence of its AVAs [tag, value].                                  *)
(* ---------------------------------------------------------------------- *)

\* the names of the attribute types in the text of a DN: CN, C, O, OU
attribute_name ==
    [tag \in {3, 6, 10, 11} |->
        CASE tag = 3 -> <<67, 78>>
          [] tag = 6 -> <<67>>
          [] tag = 10 -> <<79>>
          [] tag = 11 -> <<79, 85>>]

NULL_CERTName == [null |-> TRUE, rdns |-> <<>>]

\* CERT_AsciiToName(): the name an RFC 4514 text rdn,rdn,... of RDNs
\* ava+ava+... of AVAs type=value stands for
CERT_AsciiToName(s) ==
    LET ava(t, i) ==
            IF i > 1 /\ i < Len(t)
                  /\ \E g \in DOMAIN attribute_name : attribute_name[g] = SubSeq(t, 1, i - 1)
            THEN [tag |-> CHOOSE g \in DOMAIN attribute_name :
                                attribute_name[g] = SubSeq(t, 1, i - 1),
                  value |-> Skip(t, i)]
            ELSE [tag |-> 0, value |-> <<>>]
        rdn(ps) == [k \in DOMAIN ps |-> ava(ps[k], IndexOf(ps[k], ASCII.eq))]
        rdns(ps) == [i \in DOMAIN ps |-> rdn(Split(ps[i], ASCII.plus))]
        checked(n) ==
            IF \E i \in DOMAIN n : \E k \in DOMAIN n[i] : n[i][k].tag = 0
            THEN NULL_CERTName
            ELSE [null |-> FALSE, rdns |-> n]
    IN  IF Len(s) = 0 THEN NULL_CERTName ELSE checked(rdns(Split(s, ASCII.comma)))

\* CERT_CompareAVA() = SECEqual
CERT_CompareAVA(a, b) == a.tag = b.tag /\ a.value = b.value

\* what decoding a run of DER gives is [ok, items, rest]: the items read
\* and the bytes after them
NotDecoded == [ok |-> FALSE, items |-> <<>>, rest |-> <<>>]

\* an item put in front of the items decoded after it
decoded_cons(item, r) ==
    IF r.ok THEN [ok |-> TRUE, items |-> <<item>> \o r.items, rest |-> r.rest] ELSE NotDecoded

\* the n AVAs at the head of the bytes b
RECURSIVE decode_avas(_, _)
decode_avas(b, n) ==
    IF n = 0 THEN [ok |-> TRUE, items |-> <<>>, rest |-> b]
    ELSE IF Len(b) < 2 THEN NotDecoded
    ELSE IF b[1] \notin DOMAIN attribute_name \/ Len(b) < 2 + b[2]
    THEN NotDecoded
    ELSE decoded_cons([tag |-> b[1], value |-> SubSeq(b, 3, 2 + b[2])],
                      decode_avas(Skip(b, 2 + b[2]), n - 1))

\* the RDNs the bytes b consist of
RECURSIVE decode_rdns(_)
\* an RDN decoded as r, followed by the RDNs of the bytes after it
decode_after(r) ==
    IF r.ok THEN decoded_cons(r.items, decode_rdns(r.rest)) ELSE NotDecoded

decode_rdns(b) ==
    IF Len(b) = 0 THEN [ok |-> TRUE, items |-> <<>>, rest |-> <<>>]
    ELSE IF Len(b) < 2 THEN NotDecoded
    ELSE IF b[1] # 49 \/ b[2] = 0 THEN NotDecoded
    ELSE decode_after(decode_avas(Skip(b, 2), b[2]))

\* the name a DER chunk decodes to, NULL when the decoder rejects it
decode_dn(chunk) ==
    LET as_name(r) == IF r.ok THEN [null |-> FALSE, rdns |-> r.items] ELSE NULL_CERTName
    IN  IF Len(chunk) = 0 THEN NULL_CERTName
        ELSE IF chunk[1] # 48 THEN NULL_CERTName
        ELSE as_name(decode_rdns(Tail(chunk)))

\* jam_dn() / str_dn(): the RFC 4514 text of a DER chunk, empty when the
\* decoder rejects it
jam_dn(chunk) ==
    LET text(n) ==
            IF n.null THEN <<>>
            ELSE Join([i \in DOMAIN n.rdns |->
                         Join([k \in DOMAIN n.rdns[i] |->
                                 attribute_name[n.rdns[i][k].tag] \o <<ASCII.eq>>
                                     \o n.rdns[i][k].value],
                              ASCII.plus)],
                      ASCII.comma)
    IN  text(decode_dn(chunk))

\* atodn(): the DER of a textual DN
atodn(src) ==
    LET der_ava(a) == <<a.tag, Len(a.value)>> \o a.value
        der_rdn(r) == <<49, Len(r)>> \o Concat([k \in DOMAIN r |-> der_ava(r[k])])
        der(n) ==
            IF n.null THEN Converted("malformed DN", <<>>)
            ELSE Converted(NULL, <<48>> \o Concat([i \in DOMAIN n.rdns |-> der_rdn(n.rdns[i])]))
    IN  der(CERT_AsciiToName(src))

\* what a DN comparison returns: the verdict and *wildcards
Matched(match, wildcards) == [match |-> match, wildcards |-> wildcards]

\* the value of a wildcard AVA: the one byte '*'
is_wild(ava) == ava.value = <<ASCII.star>>

\* match_dn() on the decoded names a and b: RDN by RDN and AVA by AVA in
\* order; with wildcards enabled a '*' of b stands for any value and is
\* counted
match_names(a, b, wild) ==
    IF a.null \/ b.null THEN Matched(FALSE, 0)
    ELSE Matched(/\ Len(a.rdns) = Len(b.rdns)
                 /\ \A i \in DOMAIN b.rdns :
                       /\ Len(a.rdns[i]) = Len(b.rdns[i])
                       /\ \A k \in DOMAIN b.rdns[i] :
                             /\ a.rdns[i][k].tag = b.rdns[i][k].tag
                             /\ \/ wild /\ is_wild(b.rdns[i][k])
                                \/ a.rdns[i][k].value = b.rdns[i][k].value,
                 IF wild
                 THEN Cardinality({k \in DOMAIN Concat(b.rdns) : is_wild(Concat(b.rdns)[k])})
                 ELSE 0)

\* match_dn(a, b, wildcards): the ordered comparison of two DER chunks
match_dn(a, b, wild) == match_names(decode_dn(a), decode_dn(b), wild)

\* same_dn(): the ordered comparison without wildcards
same_dn(a, b) == match_dn(a, b, FALSE).match

\* the inner loop of match_rdn(): ava_b finds an AVA of rdn_a of its tag
\* (CERT_GetAVATag)
\* that it is a wildcard for, or that compares equal
ava_matched(rdn_a, ava_b, wild) ==
    \E k \in DOMAIN rdn_a :
       /\ rdn_a[k].tag = ava_b.tag
       /\ \/ wild /\ is_wild(ava_b)
          \/ CERT_CompareAVA(rdn_a[k], ava_b)

\* *has_wild of match_rdn(): an AVA of rdn_b met an AVA of its tag as a wildcard
rdn_has_wild(rdn_a, rdn_b, wild) ==
    /\ wild
    /\ \E j \in DOMAIN rdn_b :
          /\ is_wild(rdn_b[j])
          /\ \E k \in DOMAIN rdn_a : rdn_a[k].tag = rdn_b[j].tag

\* match_rdn() that is content with one AVA of rdn_b that found its AVA
match_rdn_some_ava(rdn_a, rdn_b, wild) ==
    Cardinality({j \in DOMAIN rdn_b : ava_matched(rdn_a, rdn_b[j], wild)}) > 0

\* match_rdn(): matched counts the AVAs of rdn_b that found their AVA in
\* rdn_a, ava_num the AVAs of rdn_b
match_rdn(rdn_a, rdn_b, wild) ==
    LET matched == Cardinality({j \in DOMAIN rdn_b : ava_matched(rdn_a, rdn_b[j], wild)})
        ava_num == Len(rdn_b)
    IN  matched > 0 /\ matched = ava_num

\* the first RDN of a that match_rdn() accepts for rdn_b, 0 when none does
first_match(a_rdns, rdn_b, wild) ==
    IF \E i \in DOMAIN a_rdns : match_rdn(a_rdns[i], rdn_b, wild)
    THEN CHOOSE i \in DOMAIN a_rdns :
            /\ match_rdn(a_rdns[i], rdn_b, wild)
            /\ \A j \in 1 .. i - 1 : ~match_rdn(a_rdns[j], rdn_b, wild)
    ELSE 0

\* the loops of match_dn_unordered() over two decoded names: matched counts
\* the RDNs of b that found an RDN of a, rdn_num the RDNs of b, and
\* *wildcards those whose match used a wildcard
match_names_unordered(a_name, b_name, wild) ==
    LET found(j) == first_match(a_name.rdns, b_name.rdns[j], wild)
        matched == Cardinality({j \in DOMAIN b_name.rdns : found(j) # 0})
        rdn_num == Len(b_name.rdns)
    IN  IF a_name.null \/ b_name.null THEN Matched(FALSE, 0)
        ELSE Matched(matched > 0 /\ rdn_num > 0 /\ matched = rdn_num,
                     Cardinality({j \in DOMAIN b_name.rdns :
                                     /\ found(j) # 0
                                     /\ rdn_has_wild(a_name.rdns[found(j)],
                                                     b_name.rdns[j], wild)}))

\* match_dn_unordered(a, b, wildcards): both chunks go through their text
match_dn_unordered(a, b, wild) ==
    match_names_unordered(CERT_AsciiToName(jam_dn(a)), CERT_AsciiToName(jam_dn(b)), wild)

\* same_dn_any_order() without the unordered comparison
same_dn_in_order(a, b) == same_dn(a, b)

\* same_dn_any_order()
same_dn_any_order(a, b) ==
    IF same_dn(a, b) THEN TRUE ELSE match_dn_unordered(a, b, FALSE).match

\* match_dn_any_order_wild(): the verdict of match_dn() if it matched, else
\* that of the unordered match, counted anew
match_dn_any_order_wild(a, b) ==
    IF match_dn(a, b, TRUE).match THEN match_dn(a, b, TRUE)
    ELSE match_dn_unordered(a, b, TRUE)

(* ---------------------------------------------------------------------- *)
(* struct id                                                              *)
(* ---------------------------------------------------------------------- *)

MAX_WILDCARDS == 15

\* a struct id; the name of an identity without one is the empty chunk
Id(kind, ip_addr, name) == [kind |-> kind, ip_addr |-> ip_addr, name |-> name]

\* ugh and *id when a codec converted the name (Named) or the address
\* (Addressed) of an identity of the kind: r is what the codec returned
Named(kind, r) == Converted(r.ugh, Id(kind, unset_address, r.val))

Addressed(kind, r) == Converted(r.ugh, Id(kind, r.val, <<>>))

\* the name of a text ID_KEY_ID with every ] kept
key_text_whole(src, len) == Skip(src, 2)

\* the name of a text ID_KEY_ID: what follows @[, less one trailing ]
key_text(src, len) ==
    IF src[len + 2] = ASCII.rbr THEN SubSeq(src, 3, len + 1) ELSE Skip(src, 2)

\* atoid() on a text without an @: the wildcard or an address
atoid_address(src) ==
    IF src = <<37, 97, 110, 121>> \/ src = <<48, 46, 48, 46, 48, 46, 48>>
    THEN Converted(NULL, Id("ID_NONE", unset_address, <<>>))
    ELSE IF ~strchr(src, ASCII.colon)
    THEN Addressed("ID_IPV4_ADDR", ttoaddr(src, "AF_INET"))
    ELSE Addressed("ID_IPV6_ADDR", ttoaddr(src, "AF_INET6"))

\* atoid() on a text with an @
atoid_name(src, oe_only) ==
    IF src[1] = ASCII.at
    THEN IF ~oe_only /\ Len(src) > 1 /\ src[2] = ASCII.hash
         THEN Named("ID_KEY_ID", ttodata(Skip(src, 2)))
         ELSE IF ~oe_only /\ Len(src) > 1 /\ src[2] = ASCII.tilde
         THEN Named("ID_DER_ASN1_DN", ttodata(Skip(src, 2)))
         ELSE IF ~oe_only /\ Len(src) > 1 /\ src[2] = ASCII.lbr
         THEN Converted(NULL, Id("ID_KEY_ID", unset_address, key_text(src, Len(src) - 2)))
         ELSE Converted(NULL, Id("ID_FQDN", unset_address, Skip(src, 1)))
    ELSE Converted(NULL, Id("ID_USER_FQDN", unset_address, src))

\* atoid() that looks for an = only in a text without an @
atoid_at_before_eq(src, oe_only) ==
    IF ~oe_only /\ src = <<37, 102, 114, 111, 109, 99, 101, 114, 116>>
    THEN Converted(NULL, Id("ID_FROMCERT", unset_address, <<>>))
    ELSE IF ~oe_only /\ src = <<37, 110, 111, 110, 101>>
    THEN Converted(NULL, Id("ID_NONE", unset_address, <<>>))
    ELSE IF ~oe_only /\ src = <<37, 110, 117, 108, 108>>
    THEN Converted(NULL, Id("ID_NULL", unset_address, <<>>))
    ELSE IF strchr(src, ASCII.at)
    THEN atoid_name(src, oe_only)
    ELSE IF ~oe_only /\ strchr(src, ASCII.eq)
    THEN Named("ID_DER_ASN1_DN", atodn(src))
    ELSE atoid_address(src)

\* atoid(src, id, oe_only): ugh and *id
atoid(src, oe_only) ==
    IF ~oe_only /\ src = <<37, 102, 114, 111, 109, 99, 101, 114, 116>>
    THEN Converted(NULL, Id("ID_FROMCERT", unset_address, <<>>))
    ELSE IF ~oe_only /\ src = <<37, 110, 111, 110, 101>>
    THEN Converted(NULL, Id("ID_NONE", unset_address, <<>>))
    ELSE IF ~oe_only /\ src = <<37, 110, 117, 108, 108>>
    THEN Converted(NULL, Id("ID_NULL", unset_address, <<>>))
    ELSE IF ~oe_only /\ strchr(src, ASCII.eq)
    THEN Named("ID_DER_ASN1_DN", atodn(IF src[1] = ASCII.at THEN Skip(src, 1) ELSE src))
    ELSE IF ~strchr(src, ASCII.at)
    THEN atoid_address(src)
    ELSE atoid_name(src, oe_only)

\* any_id(): [ret, failed]; bad_case() ends the process
any_id(a) ==
    CASE a.kind = "ID_NONE" -> [ret |-> TRUE, failed |-> "none"]
      [] a.kind \in {"ID_IPV4_ADDR", "ID_IPV6_ADDR"} ->
            [ret |-> isanyaddr(a.ip_addr), failed |-> "none"]
      [] a.kind \in {"ID_FQDN", "ID_USER_FQDN", "ID_DER_ASN1_DN", "ID_KEY_ID", "ID_NULL"} ->
            [ret |-> FALSE, failed |-> "none"]
      [] OTHER -> [ret |-> FALSE, failed |-> "any_id: bad_case"]

(* ---------------------------------------------------------------------- *)
(* Identities and connections                                             *)
(* ---------------------------------------------------------------------- *)

\* jam_id() that writes an ID_FQDN without its @
jam_id_bare_fqdn(id) ==
    CASE id.kind = "ID_FROMCERT" -> <<37, 102, 114, 111, 109, 99, 101, 114, 116>>
      [] id.kind = "ID_NONE" -> <<40, 110, 111, 110, 101, 41>>
      [] id.kind = "ID_NULL" -> <<73, 68, 95, 78, 85, 76, 76>>
      [] id.kind \in {"ID_IPV4_ADDR", "ID_IPV6_ADDR"} ->
            IF isanyaddr(id.ip_addr) THEN <<37, 97, 110, 121>> ELSE jam_address(id.ip_addr)
      [] id.kind \in {"ID_FQDN", "ID_USER_FQDN"} -> id.name
      [] id.kind = "ID_DER_ASN1_DN" -> jam_dn(id.name)
      [] id.kind = "ID_KEY_ID" -> <<64, 35, 48, 120>> \o jam_hex_bytes(id.name)

\* jam_id(): the text of an identity
jam_id(id) ==
    CASE id.kind = "ID_FROMCERT" -> <<37, 102, 114, 111, 109, 99, 101, 114, 116>>
      [] id.kind = "ID_NONE" -> <<40, 110, 111, 110, 101, 41>>
      [] id.kind = "ID_NULL" -> <<73, 68, 95, 78, 85, 76, 76>>
      [] id.kind \in {"ID_IPV4_ADDR", "ID_IPV6_ADDR"} ->
            IF isanyaddr(id.ip_addr) THEN <<37, 97, 110, 121>> ELSE jam_address(id.ip_addr)
      [] id.kind = "ID_FQDN" -> <<64>> \o id.name
      [] id.kind = "ID_USER_FQDN" -> id.name
      [] id.kind = "ID_DER_ASN1_DN" -> jam_dn(id.name)
      [] id.kind = "ID_KEY_ID" -> <<64, 35, 48, 120>> \o jam_hex_bytes(id.name)

\* str_id(): jam_id() into a buffer
str_id(id) == jam_id(id)

\* the length of a name without its trailing dots
RECURSIVE strip_dots(_, _)
strip_dots(name, len) ==
    IF len > 0 /\ name[len] = ASCII.dot THEN strip_dots(name, len - 1) ELSE len

\* same_id(a, b)
same_id(a, b) ==
    IF b.kind = "ID_NONE" \/ a.kind = "ID_NONE" THEN TRUE
    ELSE IF a.kind # b.kind THEN FALSE
    ELSE CASE a.kind = "ID_NULL" -> TRUE
           [] a.kind \in {"ID_IPV4_ADDR", "ID_IPV6_ADDR"} ->
                 \* sameaddr()
                 a.ip_addr = b.ip_addr
           [] a.kind \in {"ID_FQDN", "ID_USER_FQDN"} ->
                 /\ strip_dots(a.name, Len(a.name)) = strip_dots(b.name, Len(b.name))
                 /\ strncaseeq(a.name, b.name, strip_dots(a.name, Len(a.name)))
           [] a.kind \in {"ID_FROMCERT", "ID_DER_ASN1_DN"} -> same_dn(a.name, b.name)
           \* chunk_eq()
           [] a.kind = "ID_KEY_ID" -> a.name = b.name

\* match_id() without the comparison of the kinds
match_id_any_kind(a, b) ==
    IF b.kind = "ID_NONE" THEN Matched(TRUE, MAX_WILDCARDS)
    ELSE IF a.kind = "ID_DER_ASN1_DN" /\ b.kind = "ID_DER_ASN1_DN"
    THEN match_dn_any_order_wild(a.name, b.name)
    ELSE Matched(same_id(a, b), 0)

\* match_id(a, b, wildcards): the verdict and *wildcards
match_id(a, b) ==
    IF b.kind = "ID_NONE" THEN Matched(TRUE, MAX_WILDCARDS)
    ELSE IF a.kind # b.kind THEN Matched(FALSE, 0)
    ELSE IF a.kind = "ID_DER_ASN1_DN" THEN match_dn_any_order_wild(a.name, b.name)
    ELSE Matched(same_id(a, b), 0)

\* the connections of the model: policy bits, that.authby and that.id as
\* configuration gives them
Conns == {1, 2, 5, 6}

ConnCfg(c) ==
    CASE c = 1 -> [policy |-> LEMPTY, authby |-> "AUTH_RSASIG",
                   id |-> [kind |-> "ID_FQDN", name |-> <<97>>]]
      [] c = 2 -> [policy |-> LEMPTY, authby |-> "AUTH_RSASIG",
                   id |-> [kind |-> "ID_FQDN", name |-> <<101>>]]
      [] c = 3 -> [policy |-> LEMPTY, authby |-> "AUTH_RSASIG",
                   id |-> [kind |-> "ID_FQDN", name |-> <<105>>]]
      [] c = 4 -> [policy |-> LEMPTY, authby |-> "AUTH_RSASIG",
                   id |-> [kind |-> "ID_FQDN", name |-> <<98>>]]
      [] c = 5 -> [policy |-> {"POLICY_PSK"}, authby |-> "AUTH_PSK",
                   id |-> [kind |-> "ID_FQDN", name |-> <<98>>]]
      [] c = 6 -> [policy |-> LEMPTY, authby |-> "AUTH_RSASIG",
                   id |-> [kind |-> "ID_FQDN", name |-> <<97>>]]
      [] c = 7 -> [policy |-> LEMPTY, authby |-> "AUTH_RSASIG",
                   id |-> [kind |-> "ID_FQDN", name |-> <<102>>]]
      \* PSK or NULL authentication in the policy bits or in that.authby only
      [] c = 8 -> [policy |-> {"POLICY_PSK", "POLICY_ENCRYPT"}, authby |-> "AUTH_RSASIG",
                   id |-> [kind |-> "ID_FQDN", name |-> <<97>>]]
      [] c = 9 -> [policy |-> {"POLICY_ENCRYPT"}, authby |-> "AUTH_PSK",
                   id |-> [kind |-> "ID_FQDN", name |-> <<97>>]]
      [] c = 10 -> [policy |-> {"POLICY_AUTH_NULL"}, authby |-> "AUTH_RSASIG",
                    id |-> [kind |-> "ID_FQDN", name |-> <<97>>]]
      [] c = 11 -> [policy |-> LEMPTY, authby |-> "AUTH_NULL",
                    id |-> [kind |-> "ID_FQDN", name |-> <<97>>]]
      \* an ID of every other kind, as atoid() gives it: %null, %none,
      \* 1.2.3.4, 2001:db8::1, a@a.C, C=a, @#dead, %fromcert
      [] c = 12 -> [policy |-> LEMPTY, authby |-> "AUTH_RSASIG",
                    id |-> atoid(<<37, 110, 117, 108, 108>>, FALSE).val]
      [] c = 13 -> [policy |-> LEMPTY, authby |-> "AUTH_RSASIG",
                    id |-> atoid(<<37, 110, 111, 110, 101>>, FALSE).val]
      [] c = 14 -> [policy |-> LEMPTY, authby |-> "AUTH_RSASIG",
                    id |-> atoid(<<49, 46, 50, 46, 51, 46, 52>>, FALSE).val]
      [] c = 15 -> [policy |-> LEMPTY, authby |-> "AUTH_RSASIG",
                    id |-> atoid(<<50, 48, 48, 49, 58, 100, 98, 56, 58, 58, 49>>, FALSE).val]
      [] c = 16 -> [policy |-> LEMPTY, authby |-> "AUTH_RSASIG",
                    id |-> atoid(<<97, 64, 97, 46, 67>>, FALSE).val]
      [] c = 17 -> [policy |-> LEMPTY, authby |-> "AUTH_RSASIG",
                    id |-> atoid(<<67, 61, 97>>, FALSE).val]
      [] c = 18 -> [policy |-> LEMPTY, authby |-> "AUTH_RSASIG",
                    id |-> atoid(<<64, 35, 100, 101, 97, 100>>, FALSE).val]
      [] c = 19 -> [policy |-> LEMPTY, authby |-> "AUTH_RSASIG",
                    id |-> atoid(<<37, 102, 114, 111, 109, 99, 101, 114, 116>>, FALSE).val]
      \* @a.C and @A.c. are one identity for same_id; the key id of @[ab]
      \* and the FQDN that @#0x6162 is when oe_only are both written @#0x6162
      [] c = 20 -> [policy |-> LEMPTY, authby |-> "AUTH_RSASIG",
                    id |-> atoid(<<64, 97, 46, 67>>, FALSE).val]
      [] c = 21 -> [policy |-> LEMPTY, authby |-> "AUTH_RSASIG",
                    id |-> atoid(<<64, 65, 46, 99, 46>>, FALSE).val]
      [] c = 22 -> [policy |-> LEMPTY, authby |-> "AUTH_RSASIG",
                    id |-> atoid(<<64, 91, 97, 98, 93>>, FALSE).val]
      [] c = 23 -> [policy |-> LEMPTY, authby |-> "AUTH_RSASIG",
                    id |-> atoid(<<64, 35, 48, 120, 54, 49, 54, 50>>, TRUE).val]

that_name(c) == str_id(ConnCfg(c).id)

reusable(c) == can_reuse_lease(ConnCfg(c), uniqueIDs)

\* a connection as alloc_thing() leaves the fields the pools use
unset_addr == Addr(0, 0, 0)

\* referenced: the caller that installed c->pool has also called
\* reference_addresspool(c)
new_connection ==
    [pool |-> NO_POOL, referenced |-> FALSE, has_lease |-> FALSE,
     client |-> [is_set |-> FALSE, addr |-> unset_addr]]

\* a caller is between install_addresspool() and reference_addresspool()
Pending == \E d \in DOMAIN conn : conn[d].pool # NO_POOL /\ ~conn[d].referenced

\* what the last call returned: err and *ipa of lease_an_address(), the
\* pool of install_addresspool(); void calls return nothing
Returned(err, ipa, pool) == [err |-> err, ipa |-> ipa, pool |-> pool]

Void == Returned(NULL, unset_addr, NO_POOL)

\* the identity calls of the model: the texts a and b, and oe_only
IdInput(a, b, oe_only) == [a |-> a, b |-> b, oe_only |-> oe_only]

\* no identity is being parsed
NoIdentities ==
    /\ id_text = IdInput(<<>>, <<>>, FALSE)
    /\ ids = <<>>
    /\ id_ret = [op |-> "none"]

(* ---------------------------------------------------------------------- *)
(* Pool ranges                                                            *)
(* ---------------------------------------------------------------------- *)

\* 192.0.2.10 .. 192.0.2.(9 + k): an IPv4 range of k addresses
V4Range(k) == [start |-> Addr(0, 49152, 522), end |-> Addr(0, 49152, 521 + k)]

\* an IPv6 range of two addresses whose last four octets are ffff:ffff and
\* 0000:0000
V6Range == [start |-> Addr(1, 65535, 65535), end |-> Addr(2, 0, 0)]

LeaseRanges == {V4Range(k) : k \in 1 .. MaxSize} \cup {V6Range}

(* ---------------------------------------------------------------------- *)
(* Operations                                                             *)
(* ---------------------------------------------------------------------- *)

\* the exchanges in which ikev2_child_sa_respond() answers a CP request
Exchanges == {"ISAKMP_v2_IKE_AUTH", "ISAKMP_v2_CREATE_CHILD_SA"}

\* what ikev2_child_sa_respond() has after "child = ikev2_cp_reply_state()":
\* e and ip of lease_an_address(), the child (NULL, the state md->st of
\* pexpect_child_sa(), or the new state of ikev2_duplicate_state() that
\* v2_msgid_switch_responder() switched to), and the status it returns
\* there: NULL when it goes on
Responded(ret, child) ==
    [err |-> ret.err, ipa |-> ret.ipa, pool |-> ret.pool, child |-> child,
     stf |-> IF child = NULL THEN "STF_INTERNAL_ERROR" ELSE NULL]

\* ikev2_cp_reply_state() that fills in spd->that before it looks at e
cp_reply_lease_first(c, isa_xchg, res) ==
    /\ \A l \in DOMAIN res.pool.leases :
          res.pool.leases[l].lease_refcount <= MaxRefcount
    /\ res.pool.nr_in_use <= MaxNrInUse
    /\ pools' = [pools EXCEPT ![conn[c].pool] = res.pool]
    /\ passert_failed' = res.failed
    /\ IF res.failed # "none"
       THEN conn' = conn /\ last' = Void
       ELSE IF res.err # NULL
       THEN /\ conn' = [conn EXCEPT ![c].has_lease = TRUE]
            /\ last' = Responded(Returned(res.err, unset_addr, NO_POOL), NULL)
       ELSE /\ conn' = [conn EXCEPT
                          ![c].has_lease = TRUE,
                          ![c].client = [is_set |-> TRUE,
                                         addr |-> lease_address(res.pool, res.lease)]]
            /\ last' = Responded(
                          Returned(NULL, lease_address(res.pool, res.lease), NO_POOL),
                          IF isa_xchg = "ISAKMP_v2_CREATE_CHILD_SA"
                          THEN "pexpect_child_sa" ELSE "ikev2_duplicate_state")

\* ikev2_cp_reply_state() after "e = lease_an_address(c, md->st, &ip)"; res
\* is what the call gave
cp_reply(c, isa_xchg, res) ==
    /\ \A l \in DOMAIN res.pool.leases :
          res.pool.leases[l].lease_refcount <= MaxRefcount
    /\ res.pool.nr_in_use <= MaxNrInUse
    /\ pools' = [pools EXCEPT ![conn[c].pool] = res.pool]
    /\ passert_failed' = res.failed
    /\ IF res.failed # "none"
       THEN conn' = conn /\ last' = Void
       ELSE IF res.err # NULL
       THEN /\ conn' = conn
            /\ last' = Responded(Returned(res.err, unset_addr, NO_POOL), NULL)
       ELSE /\ conn' = [conn EXCEPT
                          ![c].has_lease = TRUE,
                          ![c].client = [is_set |-> TRUE,
                                         addr |-> lease_address(res.pool, res.lease)]]
            /\ last' = Responded(
                          Returned(NULL, lease_address(res.pool, res.lease), NO_POOL),
                          IF isa_xchg = "ISAKMP_v2_CREATE_CHILD_SA"
                          THEN "pexpect_child_sa" ELSE "ikev2_duplicate_state")

\* ikev2_child_sa_respond() with a CP payload, through
\* ikev2_cp_reply_state(): the responder asks for a lease for connection c
ikev2_cp_reply_state(c) ==
    /\ passert_failed = "none"
    /\ ~Pending
    /\ conn[c].pool # NO_POOL
    /\ \E isa_xchg \in Exchanges :
          cp_reply(c, isa_xchg,
                   lease_an_address(pools[conn[c].pool], that_name(c), reusable(c)))
    /\ UNCHANGED <<pluto_pools, uniqueIDs>>

\* the passerts of rel_lease_addr() that come before lease_refcount--
rel_early_passert ==
    {"rel_lease_addr: nr_leases <= size", "rel_lease_addr: i < nr_leases",
     "rel_lease_addr: lease_refcount > 0"}

\* rel_lease_addr() that leaves has_lease set
rel_lease_addr_keeps_flag(c) ==
    /\ passert_failed = "none"
    /\ ~Pending
    /\ IF ~conn[c].has_lease
       THEN UNCHANGED <<pools, conn, passert_failed>>
       ELSE IF conn[c].pool = NO_POOL
       THEN /\ passert_failed' = "rel_lease_addr: pool is NULL"
            /\ UNCHANGED <<pools, conn>>
       ELSE IF ~conn[c].client.is_set
       THEN /\ passert_failed' = "rel_lease_addr: subnet_type != NULL"
            /\ UNCHANGED <<pools, conn>>
       ELSE LET h == conn[c].pool
                res == rel_lease(pools[h], conn[c].client.addr)
            IN  /\ pools' = [pools EXCEPT ![h] = res.pool]
                /\ passert_failed' = res.failed
                /\ conn' = conn
    /\ last' = Void
    /\ UNCHANGED <<pluto_pools, uniqueIDs>>

\* rel_lease_addr()
rel_lease_addr(c) ==
    /\ passert_failed = "none"
    /\ ~Pending
    /\ IF ~conn[c].has_lease
       THEN UNCHANGED <<pools, conn, passert_failed>>
       ELSE IF conn[c].pool = NO_POOL
       THEN /\ passert_failed' = "rel_lease_addr: pool is NULL"
            /\ UNCHANGED <<pools, conn>>
       ELSE IF ~conn[c].client.is_set
       THEN /\ passert_failed' = "rel_lease_addr: subnet_type != NULL"
            /\ UNCHANGED <<pools, conn>>
       ELSE LET h == conn[c].pool
                res == rel_lease(pools[h], conn[c].client.addr)
            IN  /\ pools' = [pools EXCEPT ![h] = res.pool]
                /\ passert_failed' = res.failed
                /\ conn' = IF res.failed \in rel_early_passert THEN conn
                           ELSE [conn EXCEPT ![c].has_lease = FALSE]
    /\ last' = Void
    /\ UNCHANGED <<pluto_pools, uniqueIDs>>

(* ---------------------------------------------------------------------- *)
(* The lease life cycle on one pool                                       *)
(* ---------------------------------------------------------------------- *)

\* one pool is installed for a range and every connection refers to it
Init ==
    /\ \E r \in LeaseRanges :
          LET i == install_addresspool(<<>>, [g \in {} |-> new_pool(r)], r)
          IN  /\ pluto_pools = i.reg
              /\ pools = [g \in DOMAIN i.pls |->
                            [i.pls[g] EXCEPT !.pool_refcount = Cardinality(Conns)]]
              /\ conn = [c \in Conns |-> [new_connection EXCEPT !.pool = i.pool, !.referenced = TRUE]]
    /\ uniqueIDs \in BOOLEAN
    /\ passert_failed = "none"
    /\ last = Void
    /\ NoIdentities

Next ==
    /\ UNCHANGED <<id_text, ids, id_ret>>
    /\ \E c \in DOMAIN conn :
          \/ ikev2_cp_reply_state(c)
          \/ rel_lease_addr(c)

Spec == Init /\ [][Next]_vars

(* ---------------------------------------------------------------------- *)
(* The same on a full pool of four addresses: connections 1, 2, 3 and 4    *)
(* have obtained their leases, in this order; from then on a connection    *)
(* asks for a lease when it holds none                                     *)
(* ---------------------------------------------------------------------- *)

ChainConns == {1, 2, 3, 4, 5, 7}

ChainHolders == <<1, 2, 3, 4>>

\* the pool after the first k connections of ChainHolders got their lease
RECURSIVE chain_pool(_, _)
chain_pool(pool, k) ==
    IF k = 0 THEN pool
    ELSE lease_an_address(chain_pool(pool, k - 1),
                          str_id(ConnCfg(ChainHolders[k]).id), TRUE).pool

\* the lease the k-th connection of ChainHolders got
chain_lease(pool, k) ==
    lease_an_address(chain_pool(pool, k - 1),
                     str_id(ConnCfg(ChainHolders[k]).id), TRUE).lease

\* the connections of ChainConns over pool g, whose state after the holders'
\* requests is p4; p0 is its state before them
chain_conns(g, p0, p4) ==
    [c \in ChainConns |->
        IF \E k \in 1 .. Len(ChainHolders) : ChainHolders[k] = c
        THEN LET k == CHOOSE j \in 1 .. Len(ChainHolders) : ChainHolders[j] = c
             IN  [pool |-> g, referenced |-> TRUE, has_lease |-> TRUE,
                  client |-> [is_set |-> TRUE,
                              addr |-> lease_address(p4, chain_lease(p0, k))]]
        ELSE [new_connection EXCEPT !.pool = g, !.referenced = TRUE]]

\* pool p0 of the registry, referenced by every connection of ChainConns
chain_start(reg, pls, g, p0) ==
    /\ pluto_pools = reg
    /\ pools = [h \in DOMAIN pls |-> chain_pool(p0, Len(ChainHolders))]
    /\ conn = chain_conns(g, p0, pools[g])

chain_installed(i) ==
    chain_start(i.reg, i.pls, i.pool,
                [i.pls[i.pool] EXCEPT !.pool_refcount = Cardinality(ChainConns)])

InitChain ==
    /\ chain_installed(install_addresspool(<<>>, [g \in {} |-> new_pool(V4Range(4))],
                                           V4Range(4)))
    /\ uniqueIDs = TRUE
    /\ passert_failed = "none"
    /\ last = Void
    /\ NoIdentities

NextChain ==
    /\ UNCHANGED <<id_text, ids, id_ret>>
    /\ \E c \in DOMAIN conn :
          \/ ~conn[c].has_lease /\ ikev2_cp_reply_state(c)
          \/ conn[c].has_lease /\ rel_lease_addr(c)

SpecChain == InitChain /\ [][NextChain]_vars

(* ---------------------------------------------------------------------- *)
(* A fresh pool: connections with different IDs ask for a lease, one after *)
(* the other; nothing is released                                          *)
(* ---------------------------------------------------------------------- *)

FreshConns == {1, 2, 3, 4, 7}

InitFresh ==
    /\ \E n \in 1 .. MaxFresh :
          LET r == V4Range(n)
              i == install_addresspool(<<>>, [g \in {} |-> new_pool(r)], r)
          IN  /\ pluto_pools = i.reg
              /\ pools = [g \in DOMAIN i.pls |->
                            [i.pls[g] EXCEPT !.pool_refcount = Cardinality(FreshConns)]]
              /\ conn = [c \in FreshConns |->
                           [new_connection EXCEPT !.pool = i.pool, !.referenced = TRUE]]
    /\ uniqueIDs \in BOOLEAN
    /\ passert_failed = "none"
    /\ last = Void
    /\ NoIdentities

NextFresh ==
    /\ UNCHANGED <<id_text, ids, id_ret>>
    /\ \E c \in DOMAIN conn : ~conn[c].has_lease /\ ikev2_cp_reply_state(c)

SpecFresh == InitFresh /\ [][NextFresh]_vars

(* ---------------------------------------------------------------------- *)
(* Connections whose IDs are equal for same_id but written differently, or *)
(* written alike but different for same_id, on a pool of up to             *)
(* MaxReuseSize addresses; a connection asks for a lease when it holds     *)
(* none                                                                    *)
(* ---------------------------------------------------------------------- *)

InitShare ==
    /\ \E n \in 1 .. MaxReuseSize :
          LET r == V4Range(n)
              i == install_addresspool(<<>>, [g \in {} |-> new_pool(r)], r)
          IN  /\ pluto_pools = i.reg
              /\ pools = [g \in DOMAIN i.pls |-> [i.pls[g] EXCEPT !.pool_refcount = 4]]
              /\ conn = [c \in 20 .. 23 |->
                           [new_connection EXCEPT !.pool = i.pool, !.referenced = TRUE]]
    /\ uniqueIDs = TRUE
    /\ passert_failed = "none"
    /\ last = Void
    /\ NoIdentities

SpecShare == InitShare /\ [][NextChain]_vars

(* ---------------------------------------------------------------------- *)
(* The lease life cycle of two connections on a pool of up to             *)
(* MaxReuseSize addresses: connection 1 and a connection of any            *)
(* authentication and any kind of ID                                       *)
(* ---------------------------------------------------------------------- *)

ReuseConns == {6} \cup (8 .. 19)

InitReuse ==
    /\ \E c2 \in ReuseConns : \E n \in 2 .. MaxReuseSize :
          LET r == V4Range(n)
              i == install_addresspool(<<>>, [g \in {} |-> new_pool(r)], r)
          IN  /\ pluto_pools = i.reg
              /\ pools = [g \in DOMAIN i.pls |-> [i.pls[g] EXCEPT !.pool_refcount = 2]]
              /\ conn = [c \in {1, c2} |->
                           [new_connection EXCEPT !.pool = i.pool, !.referenced = TRUE]]
    /\ uniqueIDs \in BOOLEAN
    /\ passert_failed = "none"
    /\ last = Void
    /\ NoIdentities

SpecReuse == InitReuse /\ [][Next]_vars

(* ---------------------------------------------------------------------- *)
(* The counters of a pool in their 32 bits: size and nr_leases are         *)
(* unsigned, held as [w1, w0], the upper and the lower 16 bits.  A pool is  *)
(* installed and its array of leases grows, step by step                   *)
(* ---------------------------------------------------------------------- *)

\* pool->size as range_size() sets it: small pools, pools of about 2^16 and
\* 2^31 addresses, and the 2^32 - 1 that a larger range is truncated to
GrowthSizes ==
    {[w1 |-> 0, w0 |-> n] : n \in 1 .. 5}
        \cup {[w1 |-> 1, w0 |-> 0], [w1 |-> 32767, w0 |-> 65535],
              [w1 |-> 32768, w0 |-> 0], [w1 |-> 32768, w0 |-> 1],
              [w1 |-> 65535, w0 |-> 65535]}

\* the new pool->nr_leases of the growth step: min(1U, size) for an empty
\* array, else min(nr_leases * 2, size), the product taken in 32 bits
grown_nr_leases(nr_leases, size) ==
    LET less(x, y) == x.w1 < y.w1 \/ (x.w1 = y.w1 /\ x.w0 < y.w0)
        minU(x, y) == IF less(x, y) THEN x ELSE y
        twice == [w1 |-> (nr_leases.w1 * 2 + (nr_leases.w0 * 2) \div Half) % Half,
                  w0 |-> (nr_leases.w0 * 2) % Half]
    IN  IF nr_leases = [w1 |-> 0, w0 |-> 0]
        THEN minU([w1 |-> 0, w0 |-> 1], size)
        ELSE minU(twice, size)

\* install_addresspool() of a new pool: nr_leases = 0
InitGrowth ==
    /\ pluto_pools = <<1>>
    /\ \E size \in GrowthSizes :
          pools = [h \in {1} |-> [size |-> size, nr_leases |-> [w1 |-> 0, w0 |-> 0]]]
    /\ conn = [c \in {} |-> new_connection]
    /\ uniqueIDs = TRUE
    /\ passert_failed = "none"
    /\ last = Void
    /\ NoIdentities

\* "try to grow the address pool" in lease_an_address(): taken when
\* nr_leases < size
grow_step ==
    /\ \/ pools[1].nr_leases.w1 < pools[1].size.w1
       \/ /\ pools[1].nr_leases.w1 = pools[1].size.w1
          /\ pools[1].nr_leases.w0 < pools[1].size.w0
    /\ pools' = [pools EXCEPT ![1].nr_leases = grown_nr_leases(@, pools[1].size)]
    /\ UNCHANGED <<pluto_pools, conn, uniqueIDs, passert_failed, last, id_text, ids, id_ret>>

SpecGrowth == InitGrowth /\ [][grow_step]_vars

(* ---------------------------------------------------------------------- *)
(* The registry: connections are added with a pool range and deleted       *)
(* ---------------------------------------------------------------------- *)

\* 10.0.0.s .. 10.0.0.e
RegRange(s, e) == [start |-> Addr(0, 2560, s), end |-> Addr(0, 2560, e)]

\* the last octet of the pool ranges is 1 .. MaxAddr
MaxAddr == 3

RegRanges ==
    {RegRange(p[1], p[2]) :
       p \in {q \in (1 .. MaxAddr) \X (1 .. MaxAddr) : q[1] <= q[2]}}

RegConns == {1, 5, 6}

\* the connections of the registry whose peers ask for an address
RegLessees == {5, 6}

\* largest nr_in_use the pools of the registry are followed to
MaxRegNrInUse == 1

\* a new connection c gets c->pool = install_addresspool(pool_range)
install_step(c, pool_range) ==
    /\ passert_failed = "none"
    /\ ~Pending
    /\ conn[c].pool = NO_POOL
    /\ LET f == find_addresspool(pluto_pools, pools, pool_range)
       IN  f.err # NULL \/ f.pool # NO_POOL \/ DOMAIN pools # 1 .. MaxPools
    /\ LET i == install_addresspool(pluto_pools, pools, pool_range)
       IN  /\ pluto_pools' = i.reg
           /\ pools' = i.pls
           /\ conn' = [conn EXCEPT ![c] = [new_connection EXCEPT !.pool = i.pool]]
           /\ last' = Returned(i.err, unset_addr, i.pool)
    /\ UNCHANGED <<uniqueIDs, passert_failed>>

\* reference_addresspool()
reference_addresspool(c) ==
    /\ passert_failed = "none"
    /\ conn[c].pool # NO_POOL
    /\ ~conn[c].referenced
    /\ pools' = [pools EXCEPT ![conn[c].pool].pool_refcount = @ + 1]
    /\ conn' = [conn EXCEPT ![c].referenced = TRUE]
    /\ last' = Void
    /\ UNCHANGED <<pluto_pools, uniqueIDs, passert_failed>>

\* unreference_addresspool() that leaves out the call of free_addresspool()
unreference_never_frees(c) ==
    /\ passert_failed = "none"
    /\ ~Pending
    /\ conn[c].pool # NO_POOL
    /\ IF ~(pools[conn[c].pool].pool_refcount > 0)
       THEN /\ passert_failed' = "unreference_addresspool: pool_refcount > 0"
            /\ UNCHANGED <<pluto_pools, pools, conn>>
       ELSE /\ passert_failed' = "none"
            /\ pluto_pools' = pluto_pools
            /\ pools' = [pools EXCEPT ![conn[c].pool].pool_refcount = @ - 1]
            /\ conn' = [conn EXCEPT ![c].pool = NO_POOL, ![c].referenced = FALSE]
    /\ last' = Void
    /\ UNCHANGED uniqueIDs

\* unreference_addresspool()
unreference_addresspool(c) ==
    /\ passert_failed = "none"
    /\ ~Pending
    /\ conn[c].pool # NO_POOL
    /\ LET h == conn[c].pool
           p1 == [pools EXCEPT ![h].pool_refcount = @ - 1]
           f == free_addresspool(pluto_pools, p1, h)
       IN  IF ~(pools[h].pool_refcount > 0)
           THEN /\ passert_failed' = "unreference_addresspool: pool_refcount > 0"
                /\ UNCHANGED <<pluto_pools, pools, conn>>
           ELSE /\ passert_failed' = "none"
                /\ IF p1[h].pool_refcount = 0
                   THEN pluto_pools' = f.reg /\ pools' = f.pls
                   ELSE pluto_pools' = pluto_pools /\ pools' = p1
                /\ conn' = [conn EXCEPT ![c].pool = NO_POOL, ![c].referenced = FALSE]
    /\ last' = Void
    /\ UNCHANGED uniqueIDs

InitRegistry ==
    /\ pluto_pools = <<>>
    /\ pools = [g \in {} |-> new_pool(RegRange(1, 1))]
    /\ conn = [c \in RegConns |-> new_connection]
    /\ uniqueIDs = TRUE
    /\ passert_failed = "none"
    /\ last = Void
    /\ NoIdentities

NextRegistry ==
    /\ UNCHANGED <<id_text, ids, id_ret>>
    /\ \E c \in DOMAIN conn :
          \/ \E r \in RegRanges : install_step(c, r)
          \/ reference_addresspool(c)
          \/ unreference_addresspool(c)
          \/ /\ c \in RegLessees
             /\ ikev2_cp_reply_state(c)
             /\ pools'[conn[c].pool].nr_in_use <= MaxRegNrInUse
          \/ c \in RegLessees /\ rel_lease_addr(c)

SpecRegistry == InitRegistry /\ [][NextRegistry]_vars

(* ---------------------------------------------------------------------- *)
(* Identities: two texts are parsed, then formatted and compared          *)
(* ---------------------------------------------------------------------- *)

\* longer texts of every form of the grammar
LongTexts ==
    {<<37, 102, 114, 111, 109, 99, 101, 114, 116>>,       \* %fromcert
     <<37, 110, 111, 110, 101>>,                          \* %none
     <<37, 110, 117, 108, 108>>,                          \* %null
     <<37, 97, 110, 121>>,                                \* %any
     <<48, 46, 48, 46, 48, 46, 48>>,                      \* 0.0.0.0
     <<48, 46, 48, 46, 48, 46, 48, 48>>,                  \* 0.0.0.00
     <<49, 46, 50, 46, 51, 46, 52>>,                      \* 1.2.3.4
     <<49, 46, 50, 46, 51, 46, 48, 52>>,                  \* 1.2.3.04
     <<49, 46, 50, 46, 51>>,                              \* 1.2.3
     <<50, 48, 48, 49, 58, 100, 98, 56, 58, 58, 49>>,     \* 2001:db8::1
     <<64, 35, 100, 101, 97, 100>>,                       \* @#dead
     <<64, 35, 68, 69, 65, 68>>,                          \* @#DEAD
     <<64, 35, 48, 120, 100, 101, 97, 100>>,              \* @#0xdead
     <<64, 35, 100, 101, 97>>,                            \* @#dea
     <<64, 126, 51, 48, 51, 49, 48, 49, 48, 54, 48, 49, 54, 49>>, \* @~303101060161
     <<64, 126, 102, 102>>,                               \* @~ff
     <<64, 91, 97, 98, 93>>,                              \* @[ab]
     <<64, 91, 97, 98, 93, 93>>,                          \* @[ab]]
     <<64, 91, 97, 98>>,                                  \* @[ab
     <<64, 91, 114, 97, 119, 32, 107, 101, 121, 93>>,     \* @[raw key]
     <<64, 91, 114, 97, 119, 32, 107, 101, 121, 93, 93>>, \* @[raw key]]
     <<64, 97, 46, 67>>,                                  \* @a.C
     <<64, 65, 46, 99, 46, 46>>,                          \* @A.c..
     <<97, 64, 97, 46, 67>>,                              \* a@a.C
     <<65, 64, 65, 46, 99, 46>>,                          \* A@A.c.
     <<64, 67, 61, 97>>,                                  \* @C=a
     <<67, 78, 61, 97, 44, 79, 61, 98>>,                  \* CN=a,O=b
     <<79, 61, 98, 44, 67, 78, 61, 97>>,                  \* O=b,CN=a
     <<79, 61, 97, 43, 67, 61, 97>>,                      \* O=a+C=a
     <<67, 61, 42, 43, 79, 61, 42>>}                      \* C=*+O=*

\* the calls of the identity model: each text with itself, for every text
\* of at most MaxTextLen of the characters @ = : # ~ [ ] . a C 1 and every
\* longer text; every two longer texts; and every two DNs of at most MaxRdn
\* RDNs, each of at most MaxAva different AVAs out of C=a, O=a and O=*
IdInputs ==
    LET IdChars == {64, 61, 58, 35, 126, 91, 93, 46, 97, 67, 49}
        ShortTexts == UNION {[1 .. n -> IdChars] : n \in 0 .. MaxTextLen}
        DnAvas == {<<67, 61, 97>>, <<79, 61, 97>>, <<79, 61, 42>>}
        SeqsUpTo(S, n) == UNION {[1 .. k -> S] : k \in 1 .. n}
        RdnTexts ==
            {Join(s, ASCII.plus) : s \in {t \in SeqsUpTo(DnAvas, MaxAva) :
                                             \A i, j \in DOMAIN t : t[i] = t[j] => i = j}}
        DnTexts == {Join(s, ASCII.comma) : s \in SeqsUpTo(RdnTexts, MaxRdn)}
    IN  {IdInput(t, t, o) : t \in ShortTexts \cup LongTexts, o \in BOOLEAN}
        \cup {IdInput(LongPair[1], LongPair[2], FALSE) : LongPair \in LongTexts \X LongTexts}
        \cup {IdInput(DnPair[1], DnPair[2], FALSE) : DnPair \in DnTexts \X DnTexts}

\* both texts are parsed, without an error
Parsed == Len(ids) = 2 /\ ids[1].ugh = NULL /\ ids[2].ugh = NULL

\* atoid() on the next text
ParseId ==
    /\ Len(ids) < 2
    /\ ids' = Append(ids, atoid(IF Len(ids) = 0 THEN id_text.a ELSE id_text.b,
                                id_text.oe_only))
    /\ UNCHANGED <<id_text, id_ret>>

\* jam_id() on the first identity
FormatId ==
    /\ Parsed
    /\ id_ret' = [op |-> "jam_id", text |-> jam_id(ids[1].val)]
    /\ UNCHANGED <<id_text, ids>>

\* atoid() on the text that jam_id() wrote
ReparseId ==
    /\ id_ret.op = "jam_id"
    /\ id_ret' = [op |-> "atoid", parsed |-> atoid(id_ret.text, id_text.oe_only)]
    /\ UNCHANGED <<id_text, ids>>

\* same_id() on the two identities
SameId ==
    /\ Parsed
    /\ id_ret' = [op |-> "same_id", match |-> same_id(ids[1].val, ids[2].val)]
    /\ UNCHANGED <<id_text, ids>>

\* match_id() on the two identities
MatchId ==
    /\ Parsed
    /\ id_ret' = [op |-> "match_id", ret |-> match_id(ids[1].val, ids[2].val)]
    /\ UNCHANGED <<id_text, ids>>

\* same_dn_any_order() on the names of two DNs
SameDnAnyOrder ==
    /\ Parsed
    /\ ids[1].val.kind = "ID_DER_ASN1_DN"
    /\ ids[2].val.kind = "ID_DER_ASN1_DN"
    /\ id_ret' = [op |-> "same_dn_any_order",
                  match |-> same_dn_any_order(ids[1].val.name, ids[2].val.name)]
    /\ UNCHANGED <<id_text, ids>>

\* match_dn_unordered() on the names of two DNs, wildcards enabled or not
MatchDnUnordered ==
    /\ Parsed
    /\ ids[1].val.kind = "ID_DER_ASN1_DN"
    /\ ids[2].val.kind = "ID_DER_ASN1_DN"
    /\ \E wild \in BOOLEAN :
          id_ret' = [op |-> "match_dn_unordered", wild |-> wild,
                     ret |-> match_dn_unordered(ids[1].val.name, ids[2].val.name, wild)]
    /\ UNCHANGED <<id_text, ids>>

\* any_id() on the first identity
AnyId ==
    /\ Parsed
    /\ id_ret' = [op |-> "any_id", ret |-> any_id(ids[1].val).ret]
    /\ passert_failed' = any_id(ids[1].val).failed
    /\ UNCHANGED <<id_text, ids>>

InitId ==
    /\ pluto_pools = <<>>
    /\ pools = [g \in {} |-> new_pool(RegRange(1, 1))]
    /\ conn = [c \in {} |-> new_connection]
    /\ uniqueIDs = TRUE
    /\ passert_failed = "none"
    /\ last = Void
    /\ id_text \in IdInputs
    /\ ids = <<>>
    /\ id_ret = [op |-> "none"]

NextId ==
    /\ passert_failed = "none"
    /\ UNCHANGED <<pluto_pools, pools, conn, uniqueIDs, last>>
    /\ \/ ParseId /\ UNCHANGED passert_failed
       \/ FormatId /\ UNCHANGED passert_failed
       \/ ReparseId /\ UNCHANGED passert_failed
       \/ SameId /\ UNCHANGED passert_failed
       \/ MatchId /\ UNCHANGED passert_failed
       \/ SameDnAnyOrder /\ UNCHANGED passert_failed
       \/ MatchDnUnordered /\ UNCHANGED passert_failed
       \/ AnyId

SpecId == InitId /\ [][NextId]_vars

(* ---------------------------------------------------------------------- *)
(* Properties of the lease life cycle                                     *)
(* ---------------------------------------------------------------------- *)

Live == passert_failed = "none"

\* the leases of a pool that are in use
InUse(pool) == {l \in DOMAIN pool.leases : pool.leases[l].lease_refcount > 0}

\* lease l of the pool lingers: not in use, and still named
Lingering(pool, l) ==
    pool.leases[l].lease_refcount = 0 /\ ~pool.leases[l].reusable_name.null

\* the pool of connection c
PoolOf(c) == pools[conn[c].pool]

\* C1: between calls, free_list.nr + nr_in_use = nr_leases and
\* nr_leases <= size in every pool.
C1_LeaseConservation ==
    Live => \A h \in DOMAIN pools :
              /\ pools[h].free_list.nr + pools[h].nr_in_use = pools[h].nr_leases
              /\ pools[h].nr_leases <= pools[h].size

\* C2: two connections that hold a lease of one pool hold the same address
\* only if both are reusable requests under one name, which is the name of
\* the lease; a lease in use that has no reusable_name has refcount 1.
C2_AddressesUnique ==
    /\ \A c1 \in DOMAIN conn : \A c2 \in DOMAIN conn \ {c1} :
          ( /\ conn[c1].has_lease /\ conn[c2].has_lease
            /\ conn[c1].pool # NO_POOL /\ conn[c1].pool = conn[c2].pool
            /\ conn[c1].client.addr = conn[c2].client.addr )
          => /\ reusable(c1) /\ reusable(c2)
             /\ that_name(c1) = that_name(c2)
             /\ \E l \in DOMAIN PoolOf(c1).leases :
                   /\ lease_address(PoolOf(c1), l) = conn[c1].client.addr
                   /\ PoolOf(c1).leases[l].reusable_name = clone_str(that_name(c1))
    /\ \A h \in DOMAIN pools : \A l \in InUse(pools[h]) :
          pools[h].leases[l].reusable_name.null
          => pools[h].leases[l].lease_refcount = 1

\* two connections share a lease while another lease is a one-time lease
C2_Witness ==
    /\ Live
    /\ \E c1 \in DOMAIN conn : \E c2 \in DOMAIN conn \ {c1} :
          /\ conn[c1].has_lease /\ conn[c2].has_lease
          /\ conn[c1].client.addr = conn[c2].client.addr
    /\ \E h \in DOMAIN pools : \E l \in InUse(pools[h]) :
          pools[h].leases[l].reusable_name.null

\* C3: a reusable request under a name that a lingering lease still carries
\* returns the address of that lease.
C3_ReuseLaw ==
    [][\A c \in DOMAIN conn :
         (ikev2_cp_reply_state(c) /\ reusable(c)) =>
            \A l \in DOMAIN PoolOf(c).leases :
               ( /\ Lingering(PoolOf(c), l)
                 /\ streq(that_name(c), PoolOf(c).leases[l].reusable_name) )
               => /\ passert_failed' = "none"
                  /\ last'.err = NULL
                  /\ last'.ipa = lease_address(PoolOf(c), l)]_vars

\* no lease of the pool can be recovered under the name of connection c
NoneRecoverable(c) ==
    ~reusable(c) \/ \A l \in DOMAIN PoolOf(c).leases :
                       ~streq(that_name(c), PoolOf(c).leases[l].reusable_name)

\* C4: lease_an_address returns "no free address in addresspool" exactly
\* when no lease is recovered by name, the free list is empty and
\* nr_leases = size; then no address is returned and nothing has changed.
C4_ExhaustedExactlyWhen ==
    [][\A c \in DOMAIN conn :
         ikev2_cp_reply_state(c) =>
            /\ (last'.err = PoolExhausted) <=>
                  ( /\ NoneRecoverable(c)
                    /\ PoolOf(c).free_list.nr = 0
                    /\ PoolOf(c).nr_leases = PoolOf(c).size )
            /\ (last'.err = PoolExhausted) =>
                  /\ last'.ipa = unset_addr
                  /\ pools' = pools /\ conn' = conn]_vars

\* C5: nr_in_use is the number of leases whose refcount is > 0.
C5_NrInUseCountsLeases ==
    Live => \A h \in DOMAIN pools :
              pools[h].nr_in_use = Cardinality(InUse(pools[h]))

\* C6: a lease that lingers loses its name to another request only when
\* nr_leases = size.
C6_StealOnlyWhenFull ==
    [][\A c \in DOMAIN conn :
         (ikev2_cp_reply_state(c) /\ passert_failed' = "none") =>
            \A l \in DOMAIN PoolOf(c).leases :
               ( /\ Lingering(PoolOf(c), l)
                 /\ pools'[conn[c].pool].leases[l].reusable_name
                       # PoolOf(c).leases[l].reusable_name )
               => PoolOf(c).nr_leases = PoolOf(c).size]_vars

\* C7: the address a connection holds is r.start + i for a lease i <
\* nr_leases, lies within the range of the pool, is the address of no other
\* lease, and rel_lease_addr finds i back from it.
C7_LeaseAddress ==
    \A c \in DOMAIN conn :
       (Live /\ conn[c].has_lease /\ conn[c].pool # NO_POOL) =>
          LET a == conn[c].client.addr
              i == SubU32(ntohl_address(a), ntohl_address(PoolOf(c).r.start))
          IN  /\ U32Lt(i, PoolOf(c).nr_leases)
              /\ a = lease_address(PoolOf(c), i.w0)
              /\ \A j \in DOMAIN PoolOf(c).leases :
                    j # i.w0 => lease_address(PoolOf(c), j) # a
              /\ AddrInRange(a, PoolOf(c).r)

(* ---------------------------------------------------------------------- *)
(* Properties of the registry                                             *)
(* ---------------------------------------------------------------------- *)

\* the ranges a and b have no address in common
RangesDisjoint(a, b) ==
    addrcmp(a.end, b.start) < 0 \/ addrcmp(b.end, a.start) < 0

\* the pools on the list whose range has an address in common with r
Touched(r) ==
    {k \in 1 .. Len(pluto_pools) : ~RangesDisjoint(r, pools[pluto_pools[k]].r)}

\* the ranges a and b are next to each other, a first
Adjacent(a, b) ==
    a.end.hi = b.start.hi /\ a.end.w1 = b.start.w1 /\ a.end.w0 + 1 = b.start.w0

\* C8: every entry of the registry is an allocated pool, no pool is on the
\* list twice, and the ranges of two pools of the registry have no address
\* in common (so no range is there twice).
C8_RegistryDisjoint ==
    /\ \A k \in 1 .. Len(pluto_pools) : pluto_pools[k] \in DOMAIN pools
    /\ \A j \in 1 .. Len(pluto_pools) : \A k \in 1 .. Len(pluto_pools) :
          j # k => /\ pluto_pools[j] # pluto_pools[k]
                   /\ RangesDisjoint(pools[pluto_pools[j]].r,
                                     pools[pluto_pools[k]].r)

\* two referenced pools with adjacent ranges are in the registry, one of
\* them with a lease in use
C8_Witness ==
    /\ Live /\ ~Pending
    /\ \E j \in 1 .. Len(pluto_pools) : \E k \in 1 .. Len(pluto_pools) :
          /\ Adjacent(pools[pluto_pools[j]].r, pools[pluto_pools[k]].r)
          /\ pools[pluto_pools[j]].pool_refcount > 0
          /\ pools[pluto_pools[k]].pool_refcount > 0
          /\ InUse(pools[pluto_pools[k]]) # {}

\* C9: install_addresspool() of a range that has an address in common with
\* a pool of the registry whose range is not the same returns the error
\* "ERROR: partial overlap of addresspool" and no pool, and leaves the
\* registry and the pools as they are; a range that has no address in
\* common with any pool becomes a new pool at the head of the registry.
C9_PartialOverlapRefused ==
    [][\A c \in DOMAIN conn : \A r \in RegRanges :
         install_step(c, r) =>
            /\ (\E k \in Touched(r) : pools[pluto_pools[k]].r # r) =>
                  /\ last'.err = PoolOverlap
                  /\ last'.pool = NO_POOL
                  /\ conn'[c].pool = NO_POOL
                  /\ pluto_pools' = pluto_pools
                  /\ pools' = pools
            /\ Touched(r) = {} =>
                  /\ last'.err = NULL
                  /\ last'.pool \notin DOMAIN pools
                  /\ conn'[c].pool = last'.pool
                  /\ pluto_pools' = <<last'.pool>> \o pluto_pools
                  /\ DOMAIN pools' = DOMAIN pools \cup {last'.pool}
                  /\ pools'[last'.pool].r = r
                  /\ \A h \in DOMAIN pools : pools'[h] = pools[h]]_vars

\* an install has just been refused for overlap while two pools with
\* adjacent ranges are in the registry
C9_Witness ==
    /\ last.err = PoolOverlap
    /\ \E j \in 1 .. Len(pluto_pools) : \E k \in 1 .. Len(pluto_pools) :
          Adjacent(pools[pluto_pools[j]].r, pools[pluto_pools[k]].r)

\* C10: install_addresspool() of a range that is the range of a pool of the
\* registry returns that pool; the registry and every pool, the one
\* returned included, are as they were.
C10_ExactDuplicateReused ==
    [][\A c \in DOMAIN conn : \A r \in RegRanges :
         install_step(c, r) =>
            \A k \in 1 .. Len(pluto_pools) :
               pools[pluto_pools[k]].r = r =>
                  /\ last'.err = NULL
                  /\ last'.pool = pluto_pools[k]
                  /\ conn'[c].pool = pluto_pools[k]
                  /\ pluto_pools' = pluto_pools
                  /\ pools' = pools]_vars

\* install_addresspool() has just returned a pool that other connections
\* refer to and that has a lease in use
C10_Witness ==
    /\ last.pool # NO_POOL
    /\ last.pool \in DOMAIN pools
    /\ pools[last.pool].pool_refcount > 0
    /\ InUse(pools[last.pool]) # {}
    /\ \E d \in DOMAIN conn : conn[d].pool = last.pool /\ ~conn[d].referenced

\* the list reg without the handle h
Without(reg, h) == SelectSeq(reg, LAMBDA g : g # h)

\* C11: a pool whose pool_refcount is > 0 is in the registry;
\* unreference_addresspool() clears c->pool; the call that brings
\* pool_refcount to 0 takes that pool, and no other, off the registry and
\* frees it, the other pools are as they were, and every range that has
\* no address in common with the pools that are left can be installed
\* (the range of the freed pool among them); a call that leaves
\* pool_refcount > 0 leaves the registry and the other pools alone.
C11_FreedAtZeroOnly ==
    [][/\ \A h \in DOMAIN pools :
            pools[h].pool_refcount > 0 => \E k \in 1 .. Len(pluto_pools) : pluto_pools[k] = h
       /\ \A c \in DOMAIN conn :
            (unreference_addresspool(c) /\ passert_failed' = "none") =>
               /\ conn'[c].pool = NO_POOL
               /\ \A g \in DOMAIN pools \ {conn[c].pool} :
                     g \in DOMAIN pools' /\ pools'[g] = pools[g]
               /\ IF pools[conn[c].pool].pool_refcount = 1
                  THEN /\ conn[c].pool \notin DOMAIN pools'
                       /\ pluto_pools' = Without(pluto_pools, conn[c].pool)
                       /\ Len(pluto_pools') = Len(pluto_pools) - 1
                       /\ find_addresspool(pluto_pools', pools',
                                           pools[conn[c].pool].r)
                             = [err |-> NULL, pool |-> NO_POOL]
                       /\ \A r \in RegRanges :
                             (\A k \in 1 .. Len(pluto_pools') :
                                 RangesDisjoint(r, pools'[pluto_pools'[k]].r))
                             => find_addresspool(pluto_pools', pools', r)
                                   = [err |-> NULL, pool |-> NO_POOL]
                  ELSE /\ pluto_pools' = pluto_pools
                       /\ pools' = [pools EXCEPT ![conn[c].pool].pool_refcount = @ - 1]
                       /\ pools'[conn[c].pool].pool_refcount > 0]_vars

\* the pool that was installed first has been freed while the second one
\* stayed, and a range has been installed again: the new pool is at the
\* head of the registry, before the pool that stayed
C11_Witness ==
    /\ Live /\ ~Pending
    /\ pluto_pools = <<1, 2>>
    /\ pools[1].pool_refcount > 0 /\ pools[2].pool_refcount > 0

\* the connections that hold lease l of pool h
Holders(h, l) ==
    {c \in DOMAIN conn : /\ conn[c].has_lease
                         /\ conn[c].pool = h
                         /\ conn[c].client.addr = lease_address(pools[h], l)}

\* C12: the refcount of a lease is the number of connections that hold it
\* (has_lease set and the address of the lease as client address).
C12_RefcountCountsHolders ==
    Live => \A h \in DOMAIN pools : \A l \in DOMAIN pools[h].leases :
              pools[h].leases[l].lease_refcount = Cardinality(Holders(h, l))

(* ---------------------------------------------------------------------- *)
(* Properties of the identities                                           *)
(* ---------------------------------------------------------------------- *)

\* the characters of the text s
Chars(s) == {s[i] : i \in DOMAIN s}

\* the text s begins with the text p
StartsWith(s, p) == Len(s) >= Len(p) /\ SubSeq(s, 1, Len(p)) = p

\* the tag that the disambiguation rules give a text when oe_only is not set
RuleKind(s) ==
    CASE s = <<37, 102, 114, 111, 109, 99, 101, 114, 116>> -> "ID_FROMCERT"
      [] s = <<37, 110, 111, 110, 101>> -> "ID_NONE"
      [] s = <<37, 110, 117, 108, 108>> -> "ID_NULL"
      [] OTHER ->
         CASE 61 \in Chars(s) -> "ID_DER_ASN1_DN"
           [] OTHER ->
              CASE 64 \notin Chars(s) /\ s \in {<<37, 97, 110, 121>>, <<48, 46, 48, 46, 48, 46, 48>>} -> "ID_NONE"
                [] 64 \notin Chars(s) /\ 58 \in Chars(s) -> "ID_IPV6_ADDR"
                [] 64 \notin Chars(s) -> "ID_IPV4_ADDR"
                [] StartsWith(s, <<64, 35>>) -> "ID_KEY_ID"
                [] StartsWith(s, <<64, 126>>) -> "ID_DER_ASN1_DN"
                [] StartsWith(s, <<64, 91>>) -> "ID_KEY_ID"
                [] StartsWith(s, <<64>>) -> "ID_FQDN"
                [] OTHER -> "ID_USER_FQDN"

\* the bytes that the rules give the identity of a text parsed without an
\* error when oe_only is not set: r is what atoid() returned
RuleName(s, r) ==
    CASE r.val.kind = "ID_DER_ASN1_DN" /\ 61 \in Chars(s) ->
            r.val.name = atodn(IF StartsWith(s, <<64>>) THEN Tail(s) ELSE s).val
      [] r.val.kind = "ID_DER_ASN1_DN" /\ 61 \notin Chars(s) ->
            r.val.name = ttodata(Tail(Tail(s))).val
      [] r.val.kind = "ID_KEY_ID" /\ StartsWith(s, <<64, 35>>) ->
            r.val.name = ttodata(Tail(Tail(s))).val
      [] r.val.kind = "ID_FQDN" -> <<64>> \o r.val.name = s
      [] r.val.kind = "ID_USER_FQDN" -> r.val.name = s
      [] OTHER -> TRUE

\* C13: atoid classifies every text by the ordered rules: without oe_only
\* the literals, then = as a DN (before every @ rule, one leading @
\* stripped), then a text without @ as the wildcard or an address (IPv6
\* iff it has a colon), then @# @~ @[ , then @name as FQDN without the @,
\* then a UserFQDN with its @; with oe_only the tag is only ever None,
\* IPv4, IPv6, FQDN or UserFQDN
C13_ParseRules ==
    \A k \in DOMAIN ids :
       IF id_text.oe_only
       THEN \/ ids[k].ugh # NULL
            \/ ids[k].val.kind \in {"ID_NONE", "ID_IPV4_ADDR", "ID_IPV6_ADDR",
                                    "ID_FQDN", "ID_USER_FQDN"}
       ELSE /\ ids[k].val.kind = RuleKind(IF k = 1 THEN id_text.a ELSE id_text.b)
            /\ ids[k].ugh = NULL => RuleName(IF k = 1 THEN id_text.a ELSE id_text.b, ids[k])

\* a text with an = after an @ was parsed as a DN, and one with an = and a
\* leading @ without an error
C13_Witness ==
    /\ Len(ids) = 2
    /\ ~id_text.oe_only
    /\ id_text.a = <<64, 67, 61, 97>>
    /\ ids[1].ugh = NULL
    /\ ids[1].val.kind = "ID_DER_ASN1_DN"
    /\ ids[1].val.name = <<48, 49, 1, 6, 1, 97>>

\* the identity that was formatted is one that may normalise: FromCert,
\* None, Null or an all-zero address
Normalises(i) ==
    \/ i.kind \in {"ID_FROMCERT", "ID_NONE", "ID_NULL"}
    \/ i.kind \in {"ID_IPV4_ADDR", "ID_IPV6_ADDR"} /\ isanyaddr(i.ip_addr)

\* the text s, parsed as the identity i, is a canonical form: an address,
\* @name, name@domain, the text of a DN, or a key id @#hex or @[text] that
\* is not empty
Canonical(s, i) ==
    CASE i.kind = "ID_DER_ASN1_DN" -> 61 \in Chars(s)
      [] i.kind = "ID_KEY_ID" ->
            /\ i.name # <<>>
            /\ StartsWith(s, <<64, 35>>) \/ (StartsWith(s, <<64, 91>>) /\ s[Len(s)] = 93)
      [] OTHER -> TRUE

\* C14: parsing the text that jam_id wrote for an identity parsed from a
\* canonical text gives, without an error, an identity of the same tag with
\* the same bytes and the same address, unless the identity is FromCert,
\* None, Null or an all-zero address
C14_RoundTrip ==
    (/\ id_ret.op = "atoid"
     /\ Canonical(id_text.a, ids[1].val)
     /\ ~Normalises(ids[1].val)) =>
        /\ id_ret.parsed.ugh = NULL
        /\ id_ret.parsed.val.kind = ids[1].val.kind
        /\ id_ret.parsed.val.name = ids[1].val.name
        /\ id_ret.parsed.val.ip_addr = ids[1].val.ip_addr

\* the key id of @[ab] was written as @#0x6162 and parsed again
C14_Witness ==
    /\ id_ret.op = "atoid"
    /\ id_text.a = <<64, 91, 97, 98, 93>>
    /\ ids[1].val.kind = "ID_KEY_ID"
    /\ id_ret.parsed.val.name = <<97, 98>>

\* the sequence y is a permutation of the sequence x
IsPermutation(x, y) ==
    /\ Len(x) = Len(y)
    /\ \E p \in Permutations(DOMAIN x) : \A i \in DOMAIN x : y[i] = x[p[i]]

\* both identities are DNs that decode, and the RDNs of the second are a
\* permutation of the RDNs of the first
PermutedDns ==
    /\ Parsed
    /\ ids[1].val.kind = "ID_DER_ASN1_DN"
    /\ ids[2].val.kind = "ID_DER_ASN1_DN"
    /\ ~decode_dn(ids[1].val.name).null
    /\ ~decode_dn(ids[2].val.name).null
    /\ Len(decode_dn(ids[1].val.name).rdns) > 0
    /\ IsPermutation(decode_dn(ids[1].val.name).rdns, decode_dn(ids[2].val.name).rdns)

\* C15: same_id reports two DN identities equal when the RDNs of one are a
\* permutation of the RDNs of the other
C15_SameIdAnyOrder == (id_ret.op = "same_id" /\ PermutedDns) => id_ret.match

\* the RDNs of a decoded name, each as the set of its AVAs
RdnSets(name) == [i \in DOMAIN name.rdns |-> {name.rdns[i][k] : k \in DOMAIN name.rdns[i]}]

\* both identities are DNs that decode
DecodedDns ==
    /\ Parsed
    /\ ids[1].val.kind = "ID_DER_ASN1_DN"
    /\ ids[2].val.kind = "ID_DER_ASN1_DN"
    /\ ~decode_dn(ids[1].val.name).null
    /\ ~decode_dn(ids[2].val.name).null

\* C16: same_dn_any_order is true exactly when the two DNs decode to the
\* same multiset of RDNs; it is false when a has an RDN that b lacks, when b
\* repeats an RDN that a has once, and when an RDN of a has an AVA more
\* than the RDN of b
C16_AnyOrderIffSameMultiset ==
    (id_ret.op = "same_dn_any_order" /\ DecodedDns) =>
        (id_ret.match <=> IsPermutation(RdnSets(decode_dn(ids[1].val.name)),
                                        RdnSets(decode_dn(ids[2].val.name))))

\* C17: same_dn_any_order is true for a DN that decodes, with at least one
\* RDN, and every permutation of its RDNs, also when same_dn is false
C17_PermutationMatches ==
    (id_ret.op = "same_dn_any_order" /\ PermutedDns) => id_ret.match

\* two DNs whose RDNs are in a different order, so that same_dn is false,
\* were compared
C17_Witness ==
    /\ id_ret.op = "same_dn_any_order"
    /\ PermutedDns
    /\ ~same_dn(ids[1].val.name, ids[2].val.name)
    /\ id_ret.match

\* C18: match_id with the pattern b of kind None is true with MAX_WILDCARDS
\* wildcards for every a; otherwise it is false when the kinds differ, so
\* also for a of kind None, which same_id accepts; otherwise two DNs give
\* the verdict and wildcards of the any-order wildcard match; otherwise the
\* verdict is that of same_id with no wildcards
C18_MatchIdCases ==
    (id_ret.op = "match_id") =>
        LET a == ids[1].val
            b == ids[2].val
            ret == id_ret.ret
        IN  /\ b.kind = "ID_NONE" =>
                   ret.match /\ ret.wildcards = MAX_WILDCARDS
            /\ (b.kind # "ID_NONE" /\ a.kind # b.kind) =>
                   ~ret.match /\ ret.wildcards = 0
            /\ (b.kind # "ID_NONE" /\ a.kind = "ID_NONE") =>
                   ~ret.match /\ same_id(a, b)
            /\ (a.kind = b.kind /\ a.kind = "ID_DER_ASN1_DN") =>
                   ret = match_dn_any_order_wild(a.name, b.name)
            /\ (a.kind = b.kind /\ a.kind \notin {"ID_NONE", "ID_DER_ASN1_DN"}) =>
                   ret.match = same_id(a, b) /\ ret.wildcards = 0

\* an identity of kind None was matched against a pattern that is an address
C18_Witness ==
    /\ id_ret.op = "match_id"
    /\ ids[1].val.kind = "ID_NONE"
    /\ ids[2].val.kind = "ID_IPV4_ADDR"
    /\ ~id_ret.ret.match

\* C19: same_id of an identity with itself is true, for every identity that
\* atoid gives without an error, of every kind, the FQDN and USER_FQDN names
\* that are empty or made of dots included
C19_SameIdReflexive ==
    (id_ret.op = "same_id" /\ Parsed /\ ids[1].val = ids[2].val) => id_ret.match

\* C20: when lease_an_address fails in a CP request, ikev2_child_sa_respond
\* returns STF_INTERNAL_ERROR, there is no child state, neither created nor
\* switched to, and has_lease and the client address of the connection are
\* as before; has_lease becomes set only by a call whose lease succeeded
C20_LeaseFailureSurfaced ==
    [][\A c \in DOMAIN conn :
         (ikev2_cp_reply_state(c) /\ passert_failed' = "none") =>
            /\ (last'.err # NULL) =>
                  /\ last'.stf = "STF_INTERNAL_ERROR"
                  /\ last'.child = NULL
                  /\ \A d \in DOMAIN conn :
                        /\ conn'[d].has_lease = conn[d].has_lease
                        /\ conn'[d].client = conn[d].client
            /\ (last'.err = NULL) =>
                  /\ last'.stf = NULL
                  /\ last'.child # NULL
            /\ (conn'[c].has_lease /\ ~conn[c].has_lease) => last'.err = NULL]_vars

\* a CP request found the pool exhausted: the connection that asked holds
\* no lease
C20_Witness ==
    /\ passert_failed = "none"
    /\ "stf" \in DOMAIN last
    /\ last.err = PoolExhausted
    /\ last.stf = "STF_INTERNAL_ERROR"
    /\ \E c \in DOMAIN conn : conn[c].pool # NO_POOL /\ ~conn[c].has_lease

(* ---------------------------------------------------------------------- *)
(* Properties of the lists of a pool                                      *)
(* ---------------------------------------------------------------------- *)

\* the indices met following next from cur in the entries ent of n leases;
\* a walk that is longer than n has met a lease twice
RECURSIVE Walk(_, _, _, _)
Walk(ent, cur, n, fuel) ==
    IF cur = SENTINEL \/ fuel = 0 \/ ~ULt(cur, n) THEN <<>>
    ELSE <<cur>> \o Walk(ent, ent[cur].next, n, fuel - 1)

\* the chain of bucket b of the pool
Chain(pool, b) ==
    Walk(reusable_entries(pool), pool.leases[b].reusable_bucket.first,
         pool.nr_leases, pool.nr_leases + 1)

\* the bucket of a name in the pool
BucketOf(pool, name) == U32Mod(hasher(name.s), pool.nr_leases)

\* how often l is in the sequence q
Count(q, l) == Cardinality({k \in DOMAIN q : q[k] = l})

BucketsSound(pool) ==
    \A l \in DOMAIN pool.leases :
       /\ pool.leases[l].reusable_bucket.nr = Len(Chain(pool, l))
       /\ \A b \in DOMAIN pool.leases :
             Count(Chain(pool, b), l) =
                IF /\ ~pool.leases[l].reusable_name.null
                   /\ b = BucketOf(pool, pool.leases[l].reusable_name)
                THEN 1 ELSE 0

\* C21: between calls every lease with a reusable_name is on the chain of
\* exactly one bucket, the bucket of its name, once; the nr of every bucket
\* is the length of its chain; no lease without a name is on a chain
C21_BucketsSound ==
    Live => \A h \in DOMAIN pools : BucketsSound(pools[h])

\* an index of the lists of the pool: the sentinel, or a lease
IsLink(pool, x) == x = SENTINEL \/ ULt(x, pool.nr_leases)

\* every link of the hash table is an index of the pool
LinksInRange(pool) ==
    \A l \in DOMAIN pool.leases :
       /\ IsLink(pool, pool.leases[l].reusable_entry.prev)
       /\ IsLink(pool, pool.leases[l].reusable_entry.next)
       /\ IsLink(pool, pool.leases[l].reusable_bucket.first)
       /\ IsLink(pool, pool.leases[l].reusable_bucket.last)

\* the pool is one that lease_an_address() grows when nothing is recovered
Grows(pool) == IS_EMPTY(pool.free_list) /\ pool.nr_leases < pool.size

\* g is what the growth step made of the pool
GrowthSound(pool, g) ==
    /\ g.failed = "none"
    /\ g.pool.nr_leases > pool.nr_leases
    /\ DOMAIN g.pool.leases = 0 .. g.pool.nr_leases - 1
    /\ LinksInRange(g.pool)
    /\ BucketsSound(g.pool)
    /\ \A l \in DOMAIN pool.leases :
          /\ g.pool.leases[l].reusable_name = pool.leases[l].reusable_name
          /\ g.pool.leases[l].lease_refcount = pool.leases[l].lease_refcount

\* C22: right after the growth step every lease with a reusable_name is on
\* the chain of the bucket of its name in the larger table, no chain has an
\* index outside the table or a link of the old table, and the names and
\* refcounts of the old leases are as before
C22_GrowthRehashes ==
    Live => \A h \in DOMAIN pools :
              Grows(pools[h]) => GrowthSound(pools[h], grow(pools[h]))

\* a call has grown a pool from one lease to two and handed out the new
\* lease: the old lease, named, is on the chain of its bucket in the table
\* of two
C22_Witness ==
    /\ Live
    /\ "stf" \in DOMAIN last
    /\ last.err = NULL
    /\ \E h \in DOMAIN pools :
          /\ pools[h].nr_leases = 2
          /\ last.ipa = lease_address(pools[h], 1)
          /\ pools[h].leases[1].lease_refcount = 1
          /\ pools[h].leases[1].reusable_name.null
          /\ ~pools[h].leases[0].reusable_name.null
          /\ BucketOf(pools[h], pools[h].leases[0].reusable_name) = 1
          /\ Chain(pools[h], 1) = <<0>>

\* the free list of the pool, walked from first
FreeWalk(pool) ==
    Walk(free_entries(pool), pool.free_list.first, pool.nr_leases,
         pool.nr_leases + 1)

\* w is the walk of a well-formed list with the head list and the entries ent
ListSound(list, ent, w) ==
    /\ Len(w) = list.nr
    /\ (list.nr = 0) <=> (list.first = SENTINEL)
    /\ (list.nr = 0) <=> (list.last = SENTINEL)
    /\ \A j \in DOMAIN w : \A k \in DOMAIN w : j # k => w[j] # w[k]
    /\ list.nr > 0 =>
          /\ w[1] = list.first
          /\ w[Len(w)] = list.last
          /\ ent[list.first].prev = SENTINEL
          /\ ent[list.last].next = SENTINEL
    /\ \A k \in 2 .. Len(w) : ent[w[k]].prev = w[k - 1]

FreeListSound(pool) ==
    /\ DOMAIN pool.leases = 0 .. pool.nr_leases - 1
    /\ ListSound(pool.free_list, free_entries(pool), FreeWalk(pool))
    /\ \A l \in DOMAIN pool.leases :
          Count(FreeWalk(pool), l) =
             IF pool.leases[l].lease_refcount = 0 THEN 1 ELSE 0

\* C23: between calls a lease is on the free list once if its refcount is 0
\* and not at all if it is > 0, and the free list is a well-formed doubly
\* linked list: following next from first meets free_list.nr leases, each
\* once, and ends at last, prev mirrors next, and first and last are the
\* sentinel exactly when nr is 0
C23_FreeListSound ==
    Live => \A h \in DOMAIN pools : FreeListSound(pools[h])

\* two leases are on the free list, another lease is in use
C23_Witness ==
    /\ Live
    /\ \E h \in DOMAIN pools :
          /\ pools[h].free_list.nr = 2
          /\ pools[h].free_list.first # pools[h].free_list.last
          /\ InUse(pools[h]) # {}

\* the lease of the pool whose address is a
SlotOf(pool, a) == SubU32(ntohl_address(a), ntohl_address(pool.r.start)).w0

\* the sequence q without the lease l
Except(q, l) == SelectSeq(q, LAMBDA x : x # l)

\* on the free list no lease with a name comes before a lease without one
NamelessFirst(pool) ==
    \A j \in DOMAIN FreeWalk(pool) : \A k \in DOMAIN FreeWalk(pool) :
       (j < k /\ pool.leases[FreeWalk(pool)[k]].reusable_name.null)
       => pool.leases[FreeWalk(pool)[j]].reusable_name.null

\* rel_lease_addr() of lease i has made q of the pool p: a one-time lease is
\* at the head of the free list, a reusable lease that nobody holds at its
\* tail, one that is still held is not on it
ReleasedTo(p, q, i) ==
    IF q.leases[i].lease_refcount > 0 THEN FreeWalk(q) = FreeWalk(p)
    ELSE IF q.leases[i].reusable_name.null THEN FreeWalk(q) = <<i>> \o FreeWalk(p)
    ELSE FreeWalk(q) = FreeWalk(p) \o <<i>>

\* lease_an_address() for the name has made q of the pool p and granted
\* lease l: a lease recovered under its name leaves the order of the others
\* alone; otherwise l was the head of the free list of p (as grown, when it
\* was empty), a lease without a name when there was one
GrantedFrom(p, q, l, name, reuse) ==
    IF reuse /\ l \in DOMAIN p.leases /\ streq(name, p.leases[l].reusable_name)
    THEN FreeWalk(q) = Except(FreeWalk(p), l)
    ELSE IF FreeWalk(p) = <<>>
    THEN /\ l \notin DOMAIN p.leases
         /\ Except(FreeWalk(q), l) = FreeWalk(q)
         /\ \A k \in DOMAIN FreeWalk(q) : FreeWalk(q)[k] \notin DOMAIN p.leases
    ELSE /\ l = Head(FreeWalk(p))
         /\ FreeWalk(q) = Tail(FreeWalk(p))
         /\ ~p.leases[l].reusable_name.null =>
               \A k \in DOMAIN FreeWalk(p) :
                  ~p.leases[FreeWalk(p)[k]].reusable_name.null

\* C24: rel_lease_addr puts a one-time lease at the head of the free list
\* and a reusable lease whose refcount reached 0 at its tail; no lease with
\* a name comes before a lease without one on the free list; a request that
\* recovers no lease takes the head of the free list, so a lease without a
\* name when there is one, and a lingering lease only when all free leases
\* linger, the one that was released first
C24_FreeListOrder ==
    [][\A c \in DOMAIN conn :
         /\ (rel_lease_addr(c) /\ conn[c].has_lease /\ passert_failed' = "none") =>
               /\ ReleasedTo(PoolOf(c), pools'[conn[c].pool],
                             SlotOf(PoolOf(c), conn[c].client.addr))
               /\ NamelessFirst(pools'[conn[c].pool])
         /\ (ikev2_cp_reply_state(c) /\ passert_failed' = "none" /\ last'.err = NULL) =>
               /\ GrantedFrom(PoolOf(c), pools'[conn[c].pool],
                              SlotOf(PoolOf(c), last'.ipa), that_name(c), reusable(c))
               /\ NamelessFirst(pools'[conn[c].pool])]_vars

\* a one-time request has taken over a lingering lease while another lease
\* lingers still
C24_Witness ==
    /\ Live
    /\ "stf" \in DOMAIN last
    /\ last.err = NULL
    /\ \E h \in DOMAIN pools :
          /\ pools[h].nr_leases = pools[h].size
          /\ FreeWalk(pools[h]) # <<>>
          /\ \A k \in DOMAIN FreeWalk(pools[h]) :
                Lingering(pools[h], FreeWalk(pools[h])[k])
          /\ pools[h].leases[SlotOf(pools[h], last.ipa)].reusable_name.null
          /\ pools[h].leases[SlotOf(pools[h], last.ipa)].lease_refcount = 1

Holding == {c \in DOMAIN conn : conn[c].has_lease}

\* the leases of a pool of n addresses in the order in which a fresh pool
\* hands them out, from m leases on: a growth step to m2 leases hands out
\* m2 - 1 down to m
RECURSIVE FreshOrder(_, _)
FreshOrder(m, n) ==
    IF m >= n THEN <<>>
    ELSE LET m2 == IF m = 0 THEN 1 ELSE min(2 * m, n)
         IN  [j \in 1 .. m2 - m |-> m2 - j] \o FreshOrder(m2, n)

\* the statement of C26 as given: in a fresh pool without releases the k-th
\* successful call for a new identity returns range.start + (k - 1), and a
\* pool of N addresses serves N calls before it reports exhaustion
C26_AscendingOrder ==
    [][\A c \in DOMAIN conn :
         (ikev2_cp_reply_state(c) /\ ~conn[c].has_lease) =>
            /\ passert_failed' = "none"
            /\ IF Cardinality(Holding) < PoolOf(c).size
               THEN /\ last'.err = NULL
                    /\ last'.ipa = lease_address(PoolOf(c), Cardinality(Holding))
               ELSE last'.err = PoolExhausted]_vars

\* C26: in a fresh pool without releases the k-th successful call for a new
\* identity returns range.start + i for the k-th lease i of the order in
\* which the growth steps put the leases on the free list: each step from m
\* to m' leases hands out m' - 1 down to m, which is ascending for pools of
\* up to 3 addresses only; a pool of N addresses serves N calls before it
\* reports exhaustion
C26_GrowthOrder ==
    [][\A c \in DOMAIN conn :
         (ikev2_cp_reply_state(c) /\ ~conn[c].has_lease) =>
            /\ passert_failed' = "none"
            /\ IF Cardinality(Holding) < PoolOf(c).size
               THEN /\ last'.err = NULL
                    /\ last'.ipa =
                          lease_address(PoolOf(c),
                             FreshOrder(0, PoolOf(c).size)[Cardinality(Holding) + 1])
                    /\ PoolOf(c).size <= 3 =>
                          last'.ipa = lease_address(PoolOf(c), Cardinality(Holding))
               ELSE last'.err = PoolExhausted]_vars

\* the third call to a fresh pool of four addresses has returned the fourth
\* address
C26_Witness ==
    /\ Live
    /\ "stf" \in DOMAIN last
    /\ last.err = NULL
    /\ Cardinality(Holding) = 3
    /\ \E h \in DOMAIN pools :
          /\ pools[h].size = 4
          /\ last.ipa = lease_address(pools[h], 3)

(* ---------------------------------------------------------------------- *)
(* Properties of reusable and one-time requests                           *)
(* ---------------------------------------------------------------------- *)

\* the connection uses neither PSK nor NULL authentication, its peer ID is
\* not of the kinds None, Null, IPv4 and IPv6, and uniqueIDs is on
MayShare(cfg, unique) ==
    /\ cfg.policy \cap {"POLICY_PSK", "POLICY_AUTH_NULL"} = {}
    /\ cfg.authby \notin {"AUTH_PSK", "AUTH_NULL"}
    /\ cfg.id.kind \notin {"ID_NONE", "ID_NULL", "ID_IPV4_ADDR", "ID_IPV6_ADDR"}
    /\ unique

\* C27: a request is reusable exactly when the connection uses neither PSK
\* nor NULL authentication, in its policy bits and in that.authby, the kind
\* of the peer ID is none of None, Null, IPv4 and IPv6, and uniqueIDs is on:
\* then the lease granted carries the name of the peer; otherwise the lease
\* granted was held by nobody, was the head of the free list or a new lease
\* and not one found by name, and carries no name
C27_ReusableExactlyWhen ==
    [][\A c \in DOMAIN conn :
         (ikev2_cp_reply_state(c) /\ passert_failed' = "none" /\ last'.err = NULL) =>
            LET p == PoolOf(c)
                q == pools'[conn[c].pool]
                l == SlotOf(p, last'.ipa)
            IN  /\ reusable(c) <=> MayShare(ConnCfg(c), uniqueIDs)
                /\ IF MayShare(ConnCfg(c), uniqueIDs)
                   THEN q.leases[l].reusable_name = clone_str(that_name(c))
                   ELSE /\ q.leases[l].reusable_name.null
                        /\ q.leases[l].lease_refcount = 1
                        /\ l \in DOMAIN p.leases =>
                              /\ p.leases[l].lease_refcount = 0
                              /\ l = Head(FreeWalk(p))]_vars

\* a connection that authenticates with PSK holds a lease without a name
\* while a lease with the name of its ID is held or lingers
C27_Witness ==
    /\ Live
    /\ \E c \in DOMAIN conn :
          /\ conn[c].has_lease
          /\ ConnCfg(c).authby = "AUTH_PSK"
          /\ "POLICY_PSK" \notin ConnCfg(c).policy
          /\ PoolOf(c).leases[SlotOf(PoolOf(c), conn[c].client.addr)].reusable_name.null
          /\ \E l \in DOMAIN PoolOf(c).leases :
                streq(that_name(c), PoolOf(c).leases[l].reusable_name)

max(a, b) == IF a > b THEN a ELSE b

\* a lease of the pool can be recovered under the name of connection c
Recoverable(c) == ~NoneRecoverable(c)

\* the call for connection c that made q of the pool p grew the array: to
\* max(1, min(2 * nr_leases, size)) leases; the old leases keep refcount and
\* name, the lease granted is a new one, and the other new leases, and no
\* other lease, are on the free list, with refcount 0 and no name
GrewTo(p, q, l) ==
    /\ q.nr_leases = max(1, min(2 * p.nr_leases, p.size))
    /\ q.nr_leases > p.nr_leases
    /\ DOMAIN q.leases = 0 .. q.nr_leases - 1
    /\ \A k \in DOMAIN p.leases :
          /\ q.leases[k].lease_refcount = p.leases[k].lease_refcount
          /\ q.leases[k].reusable_name = p.leases[k].reusable_name
    /\ l \in DOMAIN q.leases \ DOMAIN p.leases
    /\ {FreeWalk(q)[k] : k \in DOMAIN FreeWalk(q)} = DOMAIN q.leases \ (DOMAIN p.leases \cup {l})
    /\ Len(FreeWalk(q)) = q.nr_leases - p.nr_leases - 1
    /\ \A k \in DOMAIN FreeWalk(q) :
          /\ q.leases[FreeWalk(q)[k]].lease_refcount = 0
          /\ q.leases[FreeWalk(q)[k]].reusable_name.null

\* C28: a pool has no lease when it is installed; the array of leases grows
\* only in a lease_an_address call that recovers no lease and finds the free
\* list empty and nr_leases < size; the step makes nr_leases
\* max(1, min(2 * nr_leases, size)) and puts the new leases, and only them,
\* on the free list with refcount 0 and no name
C28_GrowthStep ==
    /\ \A h \in DOMAIN pools : pools[h].nr_leases = 0 /\ DOMAIN pools[h].leases = {}
    /\ [][\A c \in DOMAIN conn :
            /\ rel_lease_addr(c) =>
                  \A h \in DOMAIN pools : pools'[h].nr_leases = pools[h].nr_leases
            /\ (ikev2_cp_reply_state(c) /\ passert_failed' = "none") =>
                  IF ~Recoverable(c) /\ Grows(PoolOf(c))
                  THEN /\ last'.err = NULL
                       /\ GrewTo(PoolOf(c), pools'[conn[c].pool],
                                 SlotOf(PoolOf(c), last'.ipa))
                  ELSE /\ pools'[conn[c].pool].nr_leases = PoolOf(c).nr_leases
                       /\ DOMAIN pools'[conn[c].pool].leases = DOMAIN PoolOf(c).leases]_vars

\* a call has grown a pool of three addresses from two leases to three and
\* handed out the new lease
C28_Witness ==
    /\ Live
    /\ "stf" \in DOMAIN last
    /\ last.err = NULL
    /\ \E h \in DOMAIN pools :
          /\ pools[h].size = 3
          /\ pools[h].nr_leases = 3
          /\ last.ipa = lease_address(pools[h], 2)
          /\ pools[h].leases[2].lease_refcount = 1
          /\ pools[h].free_list.nr = 0
          /\ pools[h].nr_in_use = 3

(* ---------------------------------------------------------------------- *)
(* Properties of rel_lease_addr()                                         *)
(* ---------------------------------------------------------------------- *)

\* C29: rel_lease_addr for a connection whose has_lease is not set changes
\* neither a pool nor a connection; a release that acts takes one off the
\* refcount of the lease and clears has_lease of the connection, and of no
\* other, so a second rel_lease_addr right after it changes nothing
C29_ReleaseOnce ==
    [][\A c \in DOMAIN conn :
         rel_lease_addr(c) =>
            IF ~conn[c].has_lease
            THEN pools' = pools /\ conn' = conn /\ passert_failed' = passert_failed
            ELSE passert_failed' = "none" =>
                    /\ conn' = [conn EXCEPT ![c].has_lease = FALSE]
                    /\ pools'[conn[c].pool].leases[SlotOf(PoolOf(c), conn[c].client.addr)].lease_refcount
                          = PoolOf(c).leases[SlotOf(PoolOf(c), conn[c].client.addr)].lease_refcount - 1]_vars

\* a connection has released its lease, which lingers; no call has been
\* made since that returned something
C29_Witness ==
    /\ Live
    /\ last = Void
    /\ \E c \in DOMAIN conn :
          /\ ~conn[c].has_lease
          /\ conn[c].client.is_set
          /\ Lingering(PoolOf(c), SlotOf(PoolOf(c), conn[c].client.addr))

\* the address n after a, the carry taken into the octets above the last four
AddressAfter(a, n) ==
    LET s0 == a.w0 + n
        s1 == a.w1 + (s0 \div Half)
    IN  Addr(a.hi + (s1 \div Half), s1 % Half, s0 % Half)

\* the connection holds a lease that its pool does not know as held: the
\* client address is below r.start, or at or beyond r.start + nr_leases, or
\* the lease at it has a refcount of zero
Unowned(c) ==
    /\ conn[c].has_lease
    /\ conn[c].pool # NO_POOL
    /\ conn[c].client.is_set
    /\ \/ addrcmp(conn[c].client.addr, PoolOf(c).r.start) < 0
       \/ addrcmp(conn[c].client.addr,
                  AddressAfter(PoolOf(c).r.start, PoolOf(c).nr_leases)) >= 0
       \/ PoolOf(c).leases[SlotOf(PoolOf(c), conn[c].client.addr)].lease_refcount = 0

\* C30: rel_lease_addr for a connection with has_lease set whose client
\* address is below r.start or at or beyond r.start + nr_leases, or whose
\* lease has a refcount of zero, stops at the passert of the index or of the
\* refcount, and no pool and no connection has changed
C30_UnownedReleaseStops ==
    [][\A c \in DOMAIN conn :
         (rel_lease_addr(c) /\ Unowned(c)) =>
            /\ passert_failed' \in {"rel_lease_addr: i < nr_leases",
                                    "rel_lease_addr: lease_refcount > 0"}
            /\ pools' = pools
            /\ conn' = conn]_vars

(* ---------------------------------------------------------------------- *)
(* Properties of the unordered comparison of DNs                          *)
(* ---------------------------------------------------------------------- *)

\* an RDN pair matches: the right RDN has an AVA, and every AVA of it has
\* an AVA of the left RDN of its tag that is equal to it or, wildcards
\* enabled, that it is the wildcard for
RdnPairMatches(rdn_a, rdn_b, wild) ==
    /\ Len(rdn_b) > 0
    /\ \A j \in DOMAIN rdn_b : \E k \in DOMAIN rdn_a :
          /\ rdn_a[k].tag = rdn_b[j].tag
          /\ \/ rdn_a[k].value = rdn_b[j].value
             \/ wild /\ rdn_b[j].value = <<42>>

\* every RDN of the right name matches an RDN of the left name
EveryRdnMatches(a_name, b_name, wild) ==
    \A j \in DOMAIN b_name.rdns : \E i \in DOMAIN a_name.rdns :
       RdnPairMatches(a_name.rdns[i], b_name.rdns[j], wild)

\* C31: the unordered match of two DNs that decode succeeds exactly when
\* both have the same number of RDNs, not zero, and every RDN of the right
\* DN matches an RDN of the left DN; it fails when the numbers differ
C31_UnorderedIffEqualCount ==
    (id_ret.op = "match_dn_unordered" /\ DecodedDns) =>
        LET a_name == decode_dn(ids[1].val.name)
            b_name == decode_dn(ids[2].val.name)
        IN  id_ret.ret.match <=>
               /\ Len(a_name.rdns) = Len(b_name.rdns)
               /\ Len(b_name.rdns) > 0
               /\ EveryRdnMatches(a_name, b_name, id_ret.wild)

\* C32: the unordered match is decided by the RDN pairs that match: every
\* RDN of the right DN has an RDN of the left DN that it matches, where a
\* value * stands for any value only when wildcards are enabled; the
\* wildcard count is the number of RDNs of the right DN with a value *,
\* one for each however many of its AVAs are wildcards, and zero when
\* wildcards are disabled
C32_RdnPairsAndWildcards ==
    (id_ret.op = "match_dn_unordered" /\ DecodedDns) =>
        LET a_name == decode_dn(ids[1].val.name)
            b_name == decode_dn(ids[2].val.name)
        IN  /\ id_ret.ret.match <=>
                  (Len(b_name.rdns) > 0 /\ EveryRdnMatches(a_name, b_name, id_ret.wild))
            /\ id_ret.ret.match =>
                  id_ret.ret.wildcards =
                     Cardinality({j \in DOMAIN b_name.rdns :
                                     /\ id_ret.wild
                                     /\ \E k \in DOMAIN b_name.rdns[j] :
                                           b_name.rdns[j][k].value = <<42>>})

\* with wildcards enabled O=a+C=a was matched by C=*+O=*, an RDN of two
\* wildcards: one wildcard is counted
C32_Witness ==
    /\ id_ret.op = "match_dn_unordered"
    /\ id_ret.wild
    /\ id_text.a = <<79, 61, 97, 43, 67, 61, 97>>
    /\ id_text.b = <<67, 61, 42, 43, 79, 61, 42>>
    /\ id_ret.ret.match
    /\ id_ret.ret.wildcards = 1

(* ---------------------------------------------------------------------- *)
(* Properties of the parsed identities                                    *)
(* ---------------------------------------------------------------------- *)

\* the first text was parsed, not oe_only, as a textual key id: it starts
\* with @[ and has no =
KeyTextParsed ==
    /\ Len(ids) >= 1
    /\ ~id_text.oe_only
    /\ Len(id_text.a) >= 2
    /\ id_text.a[1] = 64
    /\ id_text.a[2] = 91
    /\ \A i \in DOMAIN id_text.a : id_text.a[i] # 61

\* the bytes of "raw key"
RawKey == <<114, 97, 119, 32, 107, 101, 121>>

\* the text t less one ] at its end, when it ends in one
LessOneBracket(t) ==
    IF Len(t) > 0 /\ t[Len(t)] = 93 THEN SubSeq(t, 1, Len(t) - 1) ELSE t

\* the statement of C33 as given: @[raw key] and @[raw key]] both give the
\* key id of the seven bytes raw key
C33_KeyTextSame ==
    (KeyTextParsed /\ id_text.a \in {<<64, 91>> \o RawKey \o <<93>>,
                                     <<64, 91>> \o RawKey \o <<93, 93>>}) =>
        /\ ids[1].ugh = NULL
        /\ ids[1].val.kind = "ID_KEY_ID"
        /\ ids[1].val.name = RawKey

\* C33: a text @[<text>, not oe_only, is parsed without error as a key id
\* whose bytes are <text> less one ] at its end: @[raw key] gives the seven
\* bytes raw key, and @[raw key]] the eight bytes raw key]
C33_KeyTextOneBracket ==
    KeyTextParsed =>
        /\ ids[1].ugh = NULL
        /\ ids[1].val.kind = "ID_KEY_ID"
        /\ ids[1].val.name = LessOneBracket(SubSeq(id_text.a, 3, Len(id_text.a)))
        /\ id_text.a = <<64, 91>> \o RawKey \o <<93>> => ids[1].val.name = RawKey
        /\ id_text.a = <<64, 91>> \o RawKey \o <<93, 93>> =>
              ids[1].val.name = RawKey \o <<93>>

\* @[raw key]] was parsed as the key id raw key]
C33_Witness ==
    /\ KeyTextParsed
    /\ id_text.a = <<64, 91>> \o RawKey \o <<93, 93>>
    /\ ids[1].val.kind = "ID_KEY_ID"
    /\ Len(ids[1].val.name) = 8

\* C34: an identity parsed without error has an empty name exactly when its
\* kind carries no bytes: the name is empty for FromCert, None, Null, IPv4
\* and IPv6, and not empty for FQDN, UserFQDN, DN and KeyID
C34_NameEmptyIffNoBytes ==
    \A i \in DOMAIN ids :
       ids[i].ugh = NULL =>
          (ids[i].val.name = <<>> <=>
              ids[i].val.kind \in {"ID_FROMCERT", "ID_NONE", "ID_NULL",
                                   "ID_IPV4_ADDR", "ID_IPV6_ADDR"})

\* C39: any_id returns for every identity that was parsed without error,
\* FromCert included, and no bad_case ends the process; it returns true
\* exactly for None and for an IPv4 or IPv6 identity whose address is all
\* zeros
C39_AnyIdTotal ==
    id_ret.op = "any_id" =>
        /\ passert_failed = "none"
        /\ id_ret.ret <=>
              \/ ids[1].val.kind = "ID_NONE"
              \/ /\ ids[1].val.kind \in {"ID_IPV4_ADDR", "ID_IPV6_ADDR"}
                 /\ isanyaddr(ids[1].val.ip_addr)

(* ---------------------------------------------------------------------- *)
(* Properties of a pool whose callers release only what they hold         *)
(* ---------------------------------------------------------------------- *)

\* the passerts of the list primitives and of the walk of recover_lease()
ListPasserts ==
    {"IS_EMPTY: first == SENTINEL", "IS_EMPTY: last == SENTINEL",
     "IS_EMPTY: first != SENTINEL", "IS_EMPTY: first < nr_leases",
     "IS_EMPTY: last != SENTINEL", "IS_EMPTY: last < nr_leases",
     "REMOVE: prev != SENTINEL", "REMOVE: prev < nr_leases",
     "REMOVE: next != SENTINEL", "REMOVE: next < nr_leases",
     "HASH: reusable_entry.prev == SENTINEL", "HASH: reusable_entry.next == SENTINEL",
     "recover_lease: current < nr_leases", "recover_lease: reusable_name != NULL",
     "recover_lease: loop does not end"}

\* C35: when every rel_lease_addr is for a lease that the connection got
\* from lease_an_address and still holds, no passert of the list primitives
\* fails, the nr of no list goes below zero, and the chain of every bucket
\* ends
C35_ListsNeverFail ==
    /\ passert_failed \notin ListPasserts
    /\ \A h \in DOMAIN pools :
          /\ pools[h].free_list.nr >= 0
          /\ Len(FreeWalk(pools[h])) <= pools[h].nr_leases
          /\ \A l \in DOMAIN pools[h].leases :
                /\ pools[h].leases[l].reusable_bucket.nr >= 0
                /\ Len(Chain(pools[h], l)) <= pools[h].nr_leases

(* ---------------------------------------------------------------------- *)
(* Properties of the sharing of leases                                    *)
(* ---------------------------------------------------------------------- *)

\* both connections are reusable requests and hold a lease of one pool
BothHold(c1, c2) ==
    /\ c1 # c2
    /\ reusable(c1) /\ reusable(c2)
    /\ conn[c1].has_lease /\ conn[c2].has_lease
    /\ conn[c1].pool = conn[c2].pool

Below(x, y) == x.w1 < y.w1 \/ (x.w1 = y.w1 /\ x.w0 < y.w0)

\* C38: every growth step makes nr_leases larger and leaves it at most
\* size, for every size up to 2^32 - 1: the doubling does not wrap around
C38_GrowthNeverWraps ==
    [][grow_step =>
          /\ Below(pools[1].nr_leases, pools'[1].nr_leases)
          /\ ~Below(pools'[1].size, pools'[1].nr_leases)]_vars
====
